---- MODULE Spec2Model ----
(***************************************************************************)
(* Model of the in-process broker of enroute (crate enroute-memory) and    *)
(* of the delivery envelope of enroute-core.                               *)
(*                                                                         *)
(* State: the broker configuration, the dispatch registry of BrokerInner   *)
(* (channel -> consumer tag -> ConsumerGroup), the unbounded mpsc channels *)
(* created by add_consumer together with the stream that wraps each        *)
(* receiver, the consumer handles produced by Broker::consumer, and the    *)
(* envelopes yielded by the streams (each with its InMemoryAcker).         *)
(*                                                                         *)
(* Every public call is one action that performs the whole call, the       *)
(* re-publish made by nack included. The calls that await locks inside     *)
(* BrokerInner::publish (publish_event, nack) can also be suspended there  *)
(* while other calls run: such a call is a record of tasks and goes on in  *)
(* the steps ResumeRead and ResumeDispatch.                                *)
(***************************************************************************)
EXTENDS Integers, Sequences, FiniteSets, TLC

\* ------------------------------------------------------------------ bounds

\* Total number of state-changing calls in a run: stream_events,
\* publish_event, stream items taken, first ack or nack of an envelope,
\* streams dropped, broker dropped.
MaxCalls == 6

\* Number of calls of a run that are suspended inside BrokerInner::publish
\* while other calls run.
MaxSuspended == 2

\* ------------------------------------------------------------ input domains

Channels == {"orders"}
Tags == {"billing", "shipping"}

\* The ConsumerOptions {channel, consumer_tag} the application uses.
ConsumerOptions == { << "orders", "billing" >>, << "orders", "shipping" >> }

\* The event of the k-th publish_event call: producers give every event an
\* id of its own, and the payload differs with it.
Event(k) == [id |-> k, source |-> "src", type |-> "order.created", data |-> k]

Events == { Event(k) : k \in 1..MaxCalls }

VARIABLES
  config,       \* InMemoryBroker.config : [requeue_on_nack]
  inner_alive,  \* TRUE while some Arc<BrokerInner> exists
  groups,       \* BrokerInner.groups : channel -> tag -> ConsumerGroup
  values_order, \* iteration order of HashMap::values() of each channel entry
  consumers,    \* InMemoryConsumer handles held by the application
  endpoints,    \* mpsc channels made by add_consumer, with their streams
  envelopes,    \* per stream, the ackers of the envelopes it has yielded
  pub_log,      \* history: the BrokerInner::publish calls of each channel
  ret,          \* what the last call returned to its caller
  tasks,        \* calls suspended at an await: operation, position, result
  dispatch_log, \* history: per group, the events in group-lock order
  kafka,        \* the stream of KafkaConsumer::stream_events
  event_builder, \* an EventBuilder chain under construction
  built,        \* the result of EventBuilder::build / build_raw
  view          \* the result of the last data view of the event built

\* The variables of the in-process broker, of its concurrent calls, of the
\* Kafka consumer stream and of the event builder.
broker_vars == << config, inner_alive, groups, values_order, consumers,
                  endpoints, envelopes, pub_log, ret >>

conc_vars == << tasks, dispatch_log >>

kafka_vars == << kafka >>

event_vars == << event_builder, built, view >>

vars == << broker_vars, conc_vars, kafka_vars, event_vars >>

\* --------------------------------------------------------------- helpers

Range(s) == { s[i] : i \in DOMAIN s }

\* All orderings (sequences without repetition) of the finite set S.
Perms(S) ==
  { s \in [1..Cardinality(S) -> S] : \A i, j \in DOMAIN s : i # j => s[i] # s[j] }

\* The function f with key k bound to v (HashMap insert).
Insert(f, k, v) == [x \in DOMAIN f \cup {k} |-> IF x = k THEN v ELSE f[x]]

EmptyMap == [x \in {} |-> 0]

\* ------------------------------------------------- broker configuration

InMemoryBrokerConfig_default == [requeue_on_nack |-> FALSE]

InMemoryBrokerBuilder_new == [requeue_on_nack |-> FALSE]

with_requeue_on_nack(builder, requeue) ==
  [builder EXCEPT !.requeue_on_nack = requeue]

\* BrokerBuilder::build: the builder's flag becomes the broker's config.
build(builder) == [requeue_on_nack |-> builder.requeue_on_nack]

\* ----------------------------------------------------------- mpsc channel

\* unbounded(): log holds every event ever enqueued, head counts those the
\* receiver has taken; the queue is the part of log after head, and is
\* discarded when the receiver is dropped. channel and requeue are what the
\* stream's closure captured; reg_at is the number of publishes its channel
\* had seen when it was registered (history).
unbounded(channel, requeue, reg_at) ==
  [ log |-> << >>, head |-> 0, rx |-> "live",
    channel |-> channel, requeue |-> requeue, reg_at |-> reg_at ]

Queue(ep) ==
  IF ep.rx = "dropped" THEN << >> ELSE SubSeq(ep.log, ep.head + 1, Len(ep.log))

\* Mutant: the channel is bounded, a send to a queue of two events fails.
SendOk_bounded(eps, e) == eps[e].rx = "live" /\ Len(Queue(eps[e])) < 2

\* UnboundedSender::send: fails when the receiver is gone, else enqueues.
SendOk(eps, e) == eps[e].rx = "live"

\* Mutant: the event is enqueued whether or not a receiver is left.
send_unchecked(eps, e, event) == [eps EXCEPT ![e].log = Append(@, event)]

send(eps, e, event) ==
  IF SendOk(eps, e)
    THEN [eps EXCEPT ![e].log = Append(@, event)]
    ELSE eps

\* --------------------------------------------------------- ConsumerGroup

ConsumerGroup_new == [consumers |-> << >>, idx |-> 0]

\* ConsumerGroup::add_consumer: push the sender of a new channel.
add_consumer(group, e) == [group EXCEPT !.consumers = Append(@, e)]

\* Mutant: the first subscriber is always selected.
Target_first(group) == group.consumers[1]

\* The endpoint ConsumerGroup::dispatch selects (line 40), group not empty.
Target(group) == group.consumers[(group.idx % Len(group.consumers)) + 1]

\* Mutant: the cursor advances without wrapping.
NextIdx_unwrapped(group) == group.idx + 1

\* Mutant: the cursor is not advanced.
NextIdx_stuck(group) == group.idx

\* The cursor after one dispatch (line 41).
NextIdx(group) == (group.idx + 1) % Len(group.consumers)

\* Mutant: the result of send is dropped.
dispatch_silent(group, eps, event) ==
  IF group.consumers = << >>
    THEN [group |-> group, eps |-> eps, result |-> "Ok"]
    ELSE [ group |-> [group EXCEPT !.idx = NextIdx(group)],
           eps |-> send(eps, Target(group), event),
           result |-> "Ok" ]

\* Mutant: a closed target is skipped and a live subscriber is sent the event.
dispatch_failover(group, eps, event) ==
  IF group.consumers = << >>
    THEN [group |-> group, eps |-> eps, result |-> "Ok"]
    ELSE LET live == { i \in DOMAIN group.consumers : SendOk(eps, group.consumers[i]) }
             tgt == IF SendOk(eps, Target(group)) \/ live = {}
                      THEN Target(group)
                      ELSE group.consumers[CHOOSE i \in live : TRUE]
         IN  [ group |-> [group EXCEPT !.idx = NextIdx(group)],
               eps |-> send(eps, tgt, event),
               result |-> IF SendOk(eps, tgt) THEN "Ok" ELSE "Unknown" ]

\* Mutant: the cursor advances only when the send succeeds.
dispatch_hold(group, eps, event) ==
  IF group.consumers = << >>
    THEN [group |-> group, eps |-> eps, result |-> "Ok"]
    ELSE [ group |-> IF SendOk(eps, Target(group))
                       THEN [group EXCEPT !.idx = NextIdx(group)]
                       ELSE group,
           eps |-> send(eps, Target(group), event),
           result |-> IF SendOk(eps, Target(group)) THEN "Ok" ELSE "Unknown" ]

\* ConsumerGroup::dispatch: the group, the channels and the result after it.
dispatch(group, eps, event) ==
  IF group.consumers = << >>
    THEN [group |-> group, eps |-> eps, result |-> "Ok"]
    ELSE [ group |-> [group EXCEPT !.idx = NextIdx(group)],
           eps |-> send(eps, Target(group), event),
           result |-> IF SendOk(eps, Target(group)) THEN "Ok" ELSE "Unknown" ]

\* ----------------------------------------------------------- BrokerInner

BrokerInner_new == EmptyMap

\* Mutant: the loop returns after its first dispatch.
publish_loop_first(tags, eps, order, i, event) ==
  IF i > Len(order)
    THEN [tags |-> tags, eps |-> eps, result |-> "Ok"]
    ELSE LET d == dispatch(tags[order[i]], eps, event)
         IN  [ tags |-> [tags EXCEPT ![order[i]] = d.group],
               eps |-> d.eps, result |-> d.result ]

\* The loop of BrokerInner::publish over consumer_tags.values(), from
\* position i of the iteration order; `?` leaves the loop at the first error.
RECURSIVE publish_loop(_, _, _, _, _)
publish_loop(tags, eps, order, i, event) ==
  IF i > Len(order)
    THEN [tags |-> tags, eps |-> eps, result |-> "Ok"]
    ELSE LET d == dispatch(tags[order[i]], eps, event)
             tags2 == [tags EXCEPT ![order[i]] = d.group]
         IN  IF d.result # "Ok"
               THEN [tags |-> tags2, eps |-> d.eps, result |-> d.result]
               ELSE publish_loop(tags2, d.eps, order, i + 1, event)

\* Mutant: the channel is looked up with entry(channel).or_default(), which
\* inserts an empty entry for a channel that has none.
publish_or_default(reg, eps, order, channel, event) ==
  LET reg1 == IF channel \in DOMAIN reg THEN reg ELSE Insert(reg, channel, EmptyMap)
      ord == IF channel \in DOMAIN order THEN order[channel] ELSE << >>
      r == publish_loop(reg1[channel], eps, ord, 1, event)
  IN  [ reg |-> [reg1 EXCEPT ![channel] = r.tags],
        eps |-> r.eps, result |-> r.result ]

\* BrokerInner::publish: registry, channels and result after the call.
publish(reg, eps, order, channel, event) ==
  IF channel \in DOMAIN reg
    THEN LET r == publish_loop(reg[channel], eps, order[channel], 1, event)
         IN  [ reg |-> [reg EXCEPT ![channel] = r.tags],
               eps |-> r.eps, result |-> r.result ]
    ELSE [reg |-> reg, eps |-> eps, result |-> "Ok"]

\* Mutant: the new endpoint takes the place of the group's subscribers.
register_consumer_replace(reg, channel, tag, e) ==
  LET tags0 == IF channel \in DOMAIN reg THEN reg[channel] ELSE EmptyMap
      idx0 == IF tag \in DOMAIN tags0 THEN tags0[tag].idx ELSE 0
  IN  Insert(reg, channel, Insert(tags0, tag, [consumers |-> << e >>, idx |-> idx0]))

\* BrokerInner::register_consumer: entry(channel).or_default()
\* .entry(tag).or_insert_with(ConsumerGroup::new).add_consumer(); e is the
\* new channel.
register_consumer(reg, channel, tag, e) ==
  LET tags0 == IF channel \in DOMAIN reg THEN reg[channel] ELSE EmptyMap
      group0 == IF tag \in DOMAIN tags0 THEN tags0[tag] ELSE ConsumerGroup_new
  IN  Insert(reg, channel, Insert(tags0, tag, add_consumer(group0, e)))

\* ------------------------------------------------------ handles

\* Broker::consumer: the handle copies the broker's requeue_on_nack.
InMemoryBroker_consumer(cfg, channel, tag) ==
  [channel |-> channel, tag |-> tag, requeue |-> cfg.requeue_on_nack]

\* ------------------------------------------------------------------ Init

\* The application has built a broker and holds a consumer handle for each
\* of its ConsumerOptions (and a publisher for each channel).
Init ==
  /\ config \in { InMemoryBrokerConfig_default,
                  build(InMemoryBrokerBuilder_new),
                  build(with_requeue_on_nack(InMemoryBrokerBuilder_new, TRUE)),
                  build(with_requeue_on_nack(InMemoryBrokerBuilder_new, FALSE)) }
  /\ inner_alive = TRUE
  /\ groups = BrokerInner_new
  /\ values_order = EmptyMap
  /\ consumers = { InMemoryBroker_consumer(config, o[1], o[2]) : o \in ConsumerOptions }
  /\ endpoints = << >>
  /\ envelopes = << >>
  /\ pub_log = [c \in Channels |-> << >>]
  /\ ret = "Ok"
  /\ tasks = << >>
  /\ dispatch_log = << >>
  /\ kafka = "none"
  /\ event_builder = "none"
  /\ built = "none"
  /\ view = "none"

\* ---------------------------------------------------------------- ackers

\* Mutant: the acker is made with requeue off instead of the stream's flag.
InMemoryAcker_new_inert(channel, event, requeue) ==
  [ event |-> event, channel |-> channel, requeue |-> FALSE,
    done |-> FALSE, by |-> "none", requeued |-> 0 ]

\* InMemoryAcker::new inside Envelope::new, as built by the stream's
\* filter_map closure: done starts false. History: by is the call that
\* settled the acker, requeued counts the re-publishes it has made.
InMemoryAcker_new(channel, event, requeue) ==
  [ event |-> event, channel |-> channel, requeue |-> requeue,
    done |-> FALSE, by |-> "none", requeued |-> 0 ]

\* Mutant: the flag is loaded and not set.
swap_done_load(acker, call) ==
  [acker EXCEPT !.by = IF acker.done THEN @ ELSE call]

\* done.swap(true, SeqCst) by call `call`: the flag is set; the first call
\* is the one recorded as settling.
swap_done(acker, call) ==
  [acker EXCEPT !.done = TRUE, !.by = IF acker.done THEN @ ELSE call]

\* The envelopes yielded so far: << e, k >> is the k-th envelope of stream e.
EnvelopeIds ==
  UNION { { << e, k >> : k \in DOMAIN envelopes[e] } : e \in DOMAIN envelopes }

\* Number of Publisher::publish_event calls made so far.
NumPublishCalls ==
  Cardinality(UNION { { << c, i >> : i \in { j \in DOMAIN pub_log[c] :
                                               pub_log[c][j].by = "publish_event" } }
                      : c \in Channels })

\* Number of state-changing calls made so far: registrations, publish_event
\* calls, envelopes yielded, envelopes settled, streams ended or dropped,
\* and the drop of the broker.
Calls ==
  Len(endpoints) + NumPublishCalls + Cardinality(EnvelopeIds)
    + Cardinality({ id \in EnvelopeIds : envelopes[id[1]][id[2]].done })
    + Cardinality({ e \in DOMAIN endpoints : endpoints[e].rx # "live" })
    + (IF inner_alive THEN 0 ELSE 1)

\* The run may make one more state-changing call.
Budget == Calls < MaxCalls

LogEntry(event, by) == [event |-> event, by |-> by]

\* A call of op (publish_event or nack) that is suspended inside
\* BrokerInner::publish: at groups.read() (pc p_read) or, holding the read
\* guard, at the write() of the i-th group of values() (pc p_group).
\* History: sent lists the endpoints the call has enqueued its event to.
SuspendedCall(op, channel, event, pc) ==
  [ op |-> op, channel |-> channel, event |-> event, pc |-> pc,
    i |-> IF pc = "p_group" THEN 1 ELSE 0, result |-> "pending", sent |-> << >> ]

\* The suspended calls that have not returned yet.
InFlight == { k \in DOMAIN tasks : tasks[k].pc # "done" }

\* The suspended calls that hold the registry's read guard (line 79).
ReadGuards == { k \in DOMAIN tasks : tasks[k].pc = "p_group" }

\* --------------------------------------------------------------- actions

\* Broker::consumer(ConsumerOptions {channel, consumer_tag}).
Consumer(c, t) ==
  /\ inner_alive
  /\ consumers' = consumers \cup {InMemoryBroker_consumer(config, c, t)}
  /\ ret' = "Ok"
  /\ UNCHANGED << config, inner_alive, groups, values_order,
                  endpoints, envelopes, pub_log >>
  /\ UNCHANGED << conc_vars, kafka_vars, event_vars >>

\* Consumer::stream_events on handle h: registers a new endpoint under
\* (h.channel, h.tag) and wraps its receiver in a stream. groups.write()
\* resolves when no publish holds the read guard; the call is taken at that
\* moment and holds the write guard to its end.
StreamEvents(h) ==
  /\ h \in consumers
  /\ Budget
  /\ ReadGuards = {}
  /\ LET e == Len(endpoints) + 1
         reg == register_consumer(groups, h.channel, h.tag, e)
         isNewTag == ~(h.channel \in DOMAIN groups
                        /\ h.tag \in DOMAIN groups[h.channel])
     IN  /\ groups' = reg
         /\ endpoints' = Append(endpoints,
              unbounded(h.channel, h.requeue, Len(pub_log[h.channel])))
         /\ envelopes' = Append(envelopes, << >>)
         /\ IF isNewTag
              THEN \E o \in Perms(DOMAIN reg[h.channel]) :
                     values_order' = Insert(values_order, h.channel, o)
              ELSE UNCHANGED values_order
  /\ ret' = "Ok"
  /\ UNCHANGED << config, inner_alive, consumers, pub_log >>
  /\ UNCHANGED << conc_vars, kafka_vars, event_vars >>

\* Publisher::publish_event(event) on a publisher of channel c; the event
\* is a new one. The call runs to its return with no other call in between.
PublishEvent(c, event) ==
  /\ inner_alive
  /\ Budget
  /\ event = Event(NumPublishCalls + 1)
  /\ LET r == publish(groups, endpoints, values_order, c, event)
     IN  /\ groups' = r.reg
         /\ endpoints' = r.eps
         /\ ret' = r.result
  /\ pub_log' = [pub_log EXCEPT ![c] = Append(@, LogEntry(event, "publish_event"))]
  /\ UNCHANGED << config, inner_alive, values_order, consumers, envelopes >>
  /\ UNCHANGED << conc_vars, kafka_vars, event_vars >>

\* Publisher::publish_event(event) on a publisher of channel c, suspended
\* inside BrokerInner::publish: the call has the read guard and the channel's
\* entry (line 79) and awaits the write lock of the first group (line 81)
\* while other calls run.
PublishEventAwait(c, event) ==
  /\ inner_alive
  /\ Budget
  /\ event = Event(NumPublishCalls + 1)
  /\ Len(tasks) < MaxSuspended
  /\ c \in DOMAIN groups
  /\ tasks' = Append(tasks, SuspendedCall("publish_event", c, event, "p_group"))
  /\ pub_log' = [pub_log EXCEPT ![c] = Append(@, LogEntry(event, "publish_event"))]
  /\ UNCHANGED << config, inner_alive, groups, values_order, consumers,
                  endpoints, envelopes, ret >>
  /\ UNCHANGED << dispatch_log, kafka_vars, event_vars >>

\* StreamExt::next on stream e: the next queued event becomes an envelope
\* with a new acker; with the queue empty and every sender gone the
\* receiver reports end of stream.
Next_(e) ==
  /\ e \in DOMAIN endpoints
  /\ endpoints[e].rx = "live"
  /\ Budget
  /\ IF Queue(endpoints[e]) # << >>
       THEN /\ endpoints' = [endpoints EXCEPT ![e].head = @ + 1]
            /\ envelopes' = [envelopes EXCEPT ![e] = Append(@,
                 InMemoryAcker_new(endpoints[e].channel, Head(Queue(endpoints[e])),
                                   endpoints[e].requeue))]
            /\ ret' = "Ok"
       ELSE /\ ~inner_alive
            /\ endpoints' = [endpoints EXCEPT ![e].rx = "ended"]
            /\ envelopes' = envelopes
            /\ ret' = "None"
  /\ UNCHANGED << config, inner_alive, groups, values_order,
                  consumers, pub_log >>
  /\ UNCHANGED << conc_vars, kafka_vars, event_vars >>

\* Envelope::ack -> InMemoryAcker::ack on the k-th envelope of stream e (or
\* on a clone of it): done.swap(true).
Ack(e, k) ==
  /\ << e, k >> \in EnvelopeIds
  /\ envelopes[e][k].done \/ Budget
  /\ envelopes' = [envelopes EXCEPT ![e][k] = swap_done(@, "ack")]
  /\ ret' = "Ok"
  /\ UNCHANGED << config, inner_alive, groups, values_order,
                  consumers, endpoints, pub_log >>
  /\ UNCHANGED << conc_vars, kafka_vars, event_vars >>

\* Mutant: the test of the swapped flag is inverted.
Requeues_inverted(acker, alive) == acker.done /\ acker.requeue /\ alive

\* Mutant: the requeue flag is not consulted.
Requeues_unconditional(acker, alive) == ~acker.done /\ alive

\* Mutant: the flag is read but not tested, every nack re-publishes.
Requeues_every_call(acker, alive) == acker.requeue /\ alive

\* Whether a nack call on this acker re-publishes: it is the settling call,
\* requeue is set and the weak reference to BrokerInner upgrades.
Requeues(acker, alive) == ~acker.done /\ acker.requeue /\ alive

\* Mutant: the result of the re-publish is passed on to the caller.
nack_result_passed(r) == r

\* `let _ = inner.publish(..).await`: the result r of the re-publish is
\* discarded and nack returns ().
nack_result(r) == "Ok"

\* Envelope::nack -> InMemoryAcker::nack on the k-th envelope of stream e
\* (or on a clone of it). The call runs to its return with no other call in
\* between.
Nack(e, k) ==
  /\ << e, k >> \in EnvelopeIds
  /\ envelopes[e][k].done \/ Budget
  /\ LET acker == envelopes[e][k]
     IN  IF Requeues(acker, inner_alive)
           THEN LET r == publish(groups, endpoints, values_order,
                                 acker.channel, acker.event)
                IN  /\ groups' = r.reg
                    /\ endpoints' = r.eps
                    /\ envelopes' = [envelopes EXCEPT ![e][k] =
                         [swap_done(@, "nack") EXCEPT !.requeued = @ + 1]]
                    /\ pub_log' = [pub_log EXCEPT ![acker.channel] =
                                     Append(@, LogEntry(acker.event, "nack"))]
                    /\ ret' = nack_result(r.result)
           ELSE /\ envelopes' = [envelopes EXCEPT ![e][k] = swap_done(@, "nack")]
                /\ ret' = "Ok"
                /\ UNCHANGED << groups, endpoints, pub_log >>
  /\ UNCHANGED << config, inner_alive, values_order, consumers >>
  /\ UNCHANGED << conc_vars, kafka_vars, event_vars >>

\* The settling nack of the k-th envelope of stream e with requeue set and
\* the engine alive, suspended after done.swap(true) (line 47) and the
\* upgrade of the weak reference (line 52): its BrokerInner::publish awaits
\* groups.read() while other calls run.
NackAwait(e, k) ==
  /\ << e, k >> \in EnvelopeIds
  /\ Budget
  /\ Len(tasks) < MaxSuspended
  /\ Requeues(envelopes[e][k], inner_alive)
  /\ envelopes' = [envelopes EXCEPT ![e][k] =
       [swap_done(@, "nack") EXCEPT !.requeued = @ + 1]]
  /\ tasks' = Append(tasks, SuspendedCall("nack", envelopes[e][k].channel,
                                          envelopes[e][k].event, "p_read"))
  /\ UNCHANGED << config, inner_alive, groups, values_order, consumers,
                  endpoints, pub_log, ret >>
  /\ UNCHANGED << dispatch_log, kafka_vars, event_vars >>

\* What suspended call k returns for the result r of BrokerInner::publish:
\* publish_event passes it on with `?`, nack discards it.
call_result(k, r) == IF tasks[k].op = "nack" THEN nack_result(r) ELSE r

\* groups.read().await of the suspended nack k resolves (line 79): with an
\* entry for the channel the call goes on to its first group holding the
\* read guard, without one it returns.
ResumeRead(k) ==
  /\ k \in DOMAIN tasks
  /\ tasks[k].pc = "p_read"
  /\ pub_log' = [pub_log EXCEPT ![tasks[k].channel] =
                   Append(@, LogEntry(tasks[k].event, tasks[k].op))]
  /\ IF tasks[k].channel \in DOMAIN groups
       THEN /\ tasks' = [tasks EXCEPT ![k].pc = "p_group", ![k].i = 1]
            /\ ret' = ret
       ELSE /\ tasks' = [tasks EXCEPT ![k].pc = "done",
                                      ![k].result = call_result(k, "Ok")]
            /\ ret' = call_result(k, "Ok")
  /\ UNCHANGED << config, inner_alive, groups, values_order, consumers,
                  endpoints, envelopes >>
  /\ UNCHANGED << dispatch_log, kafka_vars, event_vars >>

\* group.write().await of suspended call k resolves for the group its loop
\* is at and dispatch runs under the lock, which is then released (line 81):
\* `?` ends the call at an error, otherwise the loop goes on to the next
\* group and the call returns after the last one.
ResumeDispatch(k) ==
  /\ k \in DOMAIN tasks
  /\ tasks[k].pc = "p_group"
  /\ LET c == tasks[k].channel
         t == values_order[c][tasks[k].i]
         d == dispatch(groups[c][t], endpoints, tasks[k].event)
         sent == IF d.eps # endpoints
                   THEN Append(tasks[k].sent, Target(groups[c][t]))
                   ELSE tasks[k].sent
     IN  /\ groups' = [groups EXCEPT ![c][t] = d.group]
         /\ endpoints' = d.eps
         /\ IF d.result # "Ok" \/ tasks[k].i = Len(values_order[c])
              THEN /\ tasks' = [tasks EXCEPT ![k].pc = "done", ![k].sent = sent,
                                             ![k].result = call_result(k, d.result)]
                   /\ ret' = call_result(k, d.result)
              ELSE /\ tasks' = [tasks EXCEPT ![k].i = @ + 1, ![k].sent = sent]
                   /\ ret' = ret
  /\ UNCHANGED << config, inner_alive, values_order, consumers, envelopes,
                  pub_log >>
  /\ UNCHANGED << dispatch_log, kafka_vars, event_vars >>

\* The application drops stream e: its receiver closes and its queue is
\* discarded.
DropStream(e) ==
  /\ e \in DOMAIN endpoints
  /\ endpoints[e].rx # "dropped"
  /\ endpoints[e].rx = "ended" \/ Budget
  /\ endpoints' = [endpoints EXCEPT ![e].rx = "dropped"]
  /\ ret' = "Ok"
  /\ UNCHANGED << config, inner_alive, groups, values_order,
                  consumers, envelopes, pub_log >>
  /\ UNCHANGED << conc_vars, kafka_vars, event_vars >>

\* The application drops the broker and every publisher and consumer
\* handle: the last Arc<BrokerInner> goes, and with it the registry and
\* every sender. A call in progress borrows its publisher or holds the Arc
\* its acker upgraded, so none is.
DropBroker ==
  /\ inner_alive
  /\ Budget
  /\ InFlight = {}
  /\ inner_alive' = FALSE
  /\ groups' = EmptyMap
  /\ values_order' = EmptyMap
  /\ consumers' = {}
  /\ ret' = "Ok"
  /\ UNCHANGED << config, endpoints, envelopes, pub_log >>
  /\ UNCHANGED << conc_vars, kafka_vars, event_vars >>

Next ==
  \/ \E o \in ConsumerOptions : Consumer(o[1], o[2])
  \/ \E h \in consumers : StreamEvents(h)
  \/ \E c \in Channels, event \in Events : PublishEvent(c, event)
  \/ \E c \in Channels, event \in Events : PublishEventAwait(c, event)
  \/ \E e \in DOMAIN endpoints : Next_(e)
  \/ \E id \in EnvelopeIds : Ack(id[1], id[2])
  \/ \E id \in EnvelopeIds : Nack(id[1], id[2])
  \/ \E id \in EnvelopeIds : NackAwait(id[1], id[2])
  \/ \E k \in DOMAIN tasks : ResumeRead(k)
  \/ \E k \in DOMAIN tasks : ResumeDispatch(k)
  \/ \E e \in DOMAIN endpoints : DropStream(e)
  \/ DropBroker

Spec == Init /\ [][Next]_vars

\* ------------------------------------------------------ concurrent calls
\*
\* The calls of BrokerInner interleaved at their await points. A task is one
\* call: publish (from publish_event or from nack) or register_consumer
\* (from stream_events). The locks are held by the tasks whose position is
\* inside the guarded region: the registry lock (BrokerInner.groups) and the
\* lock of each group (Arc<RwLock<ConsumerGroup>>).

\* Number of concurrent calls.
MaxTasks == 3

Tasks == 1..MaxTasks

ConcChannels == {"orders", "payments"}

ConcOptions ==
  { << "orders", "billing" >>, << "orders", "shipping" >>,
    << "payments", "billing" >> }

\* The stream_events calls completed before the concurrent calls start.
InitialRegistrations ==
  { << >>,
    << << "orders", "billing" >>, << "orders", "shipping" >> >>,
    << << "orders", "billing" >>, << "payments", "billing" >> >>,
    << << "orders", "billing" >>, << "orders", "billing" >> >> }

\* The registry after the first n registrations of regs, made one after
\* the other; the n-th creates endpoint n.
RECURSIVE RegisterAll(_, _)
RegisterAll(regs, n) ==
  IF n = 0
    THEN BrokerInner_new
    ELSE register_consumer(RegisterAll(regs, n - 1), regs[n][1], regs[n][2], n)

\* The event field of a task whose call carries no event.
NoEvent == [id |-> 0, source |-> "", type |-> "", data |-> 0]

\* A task that has made no call yet. result is what the call returned and
\* rx the endpoint of the receiver a register_consumer call returned.
IdleTask ==
  [ op |-> "none", channel |-> "", tag |-> "", event |-> NoEvent,
    pc |-> "idle", i |-> 0, result |-> "pending", rx |-> 0 ]

\* The tag of the group a publish task is at in its loop over values().
CurrentTag(k) == values_order[tasks[k].channel][tasks[k].i]

\* Mutant: register_consumer gives the registry write guard back once the
\* entries are made, before the subscriber is pushed.
RegistryWriters_released == {}

\* Holders of the registry lock: a register_consumer call holds the write
\* guard from groups.write() to the end of the call; a publish call holds
\* the read guard for the whole `if let` body.
RegistryWriters == { k \in Tasks : tasks[k].pc = "r_add" }

RegistryReaders == { k \in Tasks : tasks[k].pc \in {"p_group", "p_dispatch"} }

\* Holders of the write lock of group (c, t): a publish call holds it from
\* group.write() to the end of the dispatch statement.
GroupWriters(c, t) ==
  { k \in Tasks : /\ tasks[k].pc = "p_dispatch"
                  /\ tasks[k].channel = c
                  /\ CurrentTag(k) = t }

\* Mutant: readers are admitted while a writer holds the lock.
groups_read_ready_always == TRUE

\* RwLock::read on the registry resolves: no writer holds it.
groups_read_ready == RegistryWriters = {}

\* Mutant: the writer does not wait for the readers to leave.
groups_write_ready_no_readers == RegistryWriters = {}

\* RwLock::write on the registry resolves: nobody holds it.
groups_write_ready == RegistryWriters = {} /\ RegistryReaders = {}

\* Mutant: the group lock is granted only with the registry lock free, as
\* if the two locks were taken in the other order.
group_write_ready_registry_free(c, t) ==
  GroupWriters(c, t) = {} /\ RegistryReaders = {} /\ RegistryWriters = {}

\* Mutant: the group lock admits several writers.
group_write_ready_shared(c, t) == TRUE

\* RwLock::write on group (c, t) resolves: nobody holds it.
group_write_ready(c, t) == GroupWriters(c, t) = {}

\* Mutant: the group is inserted, replacing the one the tag had.
entry_insert(reg, channel, tag) ==
  LET tags0 == IF channel \in DOMAIN reg THEN reg[channel] ELSE EmptyMap
  IN  Insert(reg, channel, Insert(tags0, tag, ConsumerGroup_new))

\* entry(channel).or_default().entry(tag).or_insert_with(ConsumerGroup::new):
\* the registry with the channel entry and the group made if missing.
entry_or_insert_with(reg, channel, tag) ==
  LET tags0 == IF channel \in DOMAIN reg THEN reg[channel] ELSE EmptyMap
      group0 == IF tag \in DOMAIN tags0 THEN tags0[tag] ELSE ConsumerGroup_new
  IN  Insert(reg, channel, Insert(tags0, tag, group0))

\* The broker has requeue on; the registrations of one of the
\* InitialRegistrations are complete, their streams held and unread.
ConcInit ==
  /\ config = build(with_requeue_on_nack(InMemoryBrokerBuilder_new, TRUE))
  /\ inner_alive = TRUE
  /\ consumers = { InMemoryBroker_consumer(config, o[1], o[2]) : o \in ConcOptions }
  /\ \E regs \in InitialRegistrations :
       /\ groups = RegisterAll(regs, Len(regs))
       /\ endpoints = [n \in 1..Len(regs) |->
                         unbounded(regs[n][1], config.requeue_on_nack, 0)]
       /\ envelopes = [n \in 1..Len(regs) |-> << >>]
  /\ values_order \in
       { f \in [DOMAIN groups -> UNION { Perms(DOMAIN groups[c]) : c \in DOMAIN groups }] :
           \A c \in DOMAIN groups : f[c] \in Perms(DOMAIN groups[c]) }
  /\ pub_log = [c \in ConcChannels |-> << >>]
  /\ ret = "Ok"
  /\ tasks = [k \in Tasks |-> IdleTask]
  /\ dispatch_log = [o \in ConcOptions |-> << >>]
  /\ kafka = "none"
  /\ event_builder = "none"
  /\ built = "none"
  /\ view = "none"

\* What the concurrent actions leave alone besides the registry state.
ConcFrame ==
  UNCHANGED << config, inner_alive, consumers, pub_log, ret,
               kafka_vars, event_vars >>

\* Mutant: the call enters the loop over the groups of some channel entry of
\* the registry, whatever channel it was given.
read_groups_any(task) ==
  IF DOMAIN groups # {}
    THEN [task EXCEPT !.pc = "p_group", !.i = 1,
                      !.channel = CHOOSE c \in DOMAIN groups : c # task.channel \/ DOMAIN groups = {task.channel}]
    ELSE [task EXCEPT !.pc = "done", !.result = "Ok"]

\* publish, line 79: groups.read().await.get(channel) by a call of task
\* record task. With an entry for the channel the call enters its loop
\* holding the read guard; without one the guard is released and the call
\* returns Ok.
read_groups(task) ==
  IF task.channel \in DOMAIN groups
    THEN [task EXCEPT !.pc = "p_group", !.i = 1]
    ELSE [task EXCEPT !.pc = "done", !.result = "Ok"]

\* Task k calls BrokerInner::publish(c, event) with an event of its own and
\* gets the registry read lock. Calls are numbered in the order they take
\* their first step; a call waiting for the registry lock has no effect
\* until it gets it, so the action is the call with the lock acquisition.
CallPublish(k, c) ==
  /\ tasks[k].pc = "idle"
  /\ IF k = 1 THEN TRUE ELSE tasks[k - 1].pc # "idle"
  /\ groups_read_ready
  /\ tasks' = [tasks EXCEPT ![k] = read_groups(
       [ op |-> "publish", channel |-> c, tag |-> "", event |-> Event(k),
         pc |-> "p_read", i |-> 0, result |-> "pending", rx |-> 0 ])]
  /\ UNCHANGED << groups, values_order, endpoints, envelopes, dispatch_log >>
  /\ ConcFrame

\* Task k calls BrokerInner::register_consumer(c, t), lines 66-72:
\* groups.write().await resolves and the entries for the channel and the tag
\* are made if missing.
CallRegister(k, c, t) ==
  /\ tasks[k].pc = "idle"
  /\ IF k = 1 THEN TRUE ELSE tasks[k - 1].pc # "idle"
  /\ groups_write_ready
  /\ LET reg == entry_or_insert_with(groups, c, t)
         isNewTag == ~(c \in DOMAIN groups /\ t \in DOMAIN groups[c])
     IN  /\ groups' = reg
         /\ IF isNewTag
              THEN \E o \in Perms(DOMAIN reg[c]) :
                     values_order' = Insert(values_order, c, o)
              ELSE UNCHANGED values_order
  /\ tasks' = [tasks EXCEPT ![k] =
       [ op |-> "register", channel |-> c, tag |-> t, event |-> NoEvent,
         pc |-> "r_add", i |-> 0, result |-> "pending", rx |-> 0 ]]
  /\ UNCHANGED << endpoints, envelopes, dispatch_log >>
  /\ ConcFrame

\* Task k calls nack on the j-th envelope of stream e: done.swap(true); the
\* settling call with requeue set and the engine alive goes on to
\* BrokerInner::publish(channel, event) with the envelope's event.
CallNack(k, e, j) ==
  /\ tasks[k].pc = "idle"
  /\ IF k = 1 THEN TRUE ELSE tasks[k - 1].pc # "idle"
  /\ << e, j >> \in EnvelopeIds
  /\ LET acker == envelopes[e][j]
     IN  IF Requeues(acker, inner_alive)
           THEN /\ envelopes' = [envelopes EXCEPT ![e][j] =
                     [swap_done(@, "nack") EXCEPT !.requeued = @ + 1]]
                /\ tasks' = [tasks EXCEPT ![k] =
                     [ op |-> "nack", channel |-> acker.channel, tag |-> "",
                       event |-> acker.event, pc |-> "p_read", i |-> 0,
                       result |-> "pending", rx |-> 0 ]]
           ELSE /\ envelopes' = [envelopes EXCEPT ![e][j] = swap_done(@, "nack")]
                /\ tasks' = [tasks EXCEPT ![k] =
                     [ op |-> "nack", channel |-> acker.channel, tag |-> "",
                       event |-> acker.event, pc |-> "done", i |-> 0,
                       result |-> "Ok", rx |-> 0 ]]
  /\ UNCHANGED << groups, values_order, endpoints, dispatch_log >>
  /\ ConcFrame

\* Task k calls ack on the j-th envelope of stream e: done.swap(true) and
\* return.
CallAck(k, e, j) ==
  /\ tasks[k].pc = "idle"
  /\ IF k = 1 THEN TRUE ELSE tasks[k - 1].pc # "idle"
  /\ << e, j >> \in EnvelopeIds
  /\ envelopes' = [envelopes EXCEPT ![e][j] = swap_done(@, "ack")]
  /\ tasks' = [tasks EXCEPT ![k] =
       [ op |-> "ack", channel |-> envelopes[e][j].channel, tag |-> "",
         event |-> envelopes[e][j].event, pc |-> "done", i |-> 0,
         result |-> "Ok", rx |-> 0 ]]
  /\ UNCHANGED << groups, values_order, endpoints, dispatch_log >>
  /\ ConcFrame

\* The publish call made by nack gets the registry read lock.
PublishRead(k) ==
  /\ tasks[k].pc = "p_read"
  /\ groups_read_ready
  /\ tasks' = [tasks EXCEPT ![k] = read_groups(@)]
  /\ UNCHANGED << groups, values_order, endpoints, envelopes, dispatch_log >>
  /\ ConcFrame

\* publish, line 81: group.write().await resolves for the group the loop is
\* at. History: the event enters the group's dispatch order.
PublishGroupLock(k) ==
  /\ tasks[k].pc = "p_group"
  /\ group_write_ready(tasks[k].channel, CurrentTag(k))
  /\ tasks' = [tasks EXCEPT ![k].pc = "p_dispatch"]
  /\ dispatch_log' = [dispatch_log EXCEPT
       ![<< tasks[k].channel, CurrentTag(k) >>] = Append(@, tasks[k].event)]
  /\ UNCHANGED << groups, values_order, endpoints, envelopes >>
  /\ ConcFrame

\* publish, line 81: dispatch(event) under the group lock, which is then
\* released; `?` ends the call at an error, otherwise the loop goes on to
\* the next group and the call returns Ok after the last one. result is what
\* the task's call returns: BrokerInner::publish's result, which nack
\* discards (`let _ =`, acker.rs line 53) to return ().
PublishDispatch(k) ==
  /\ tasks[k].pc = "p_dispatch"
  /\ LET c == tasks[k].channel
         t == CurrentTag(k)
         d == dispatch(groups[c][t], endpoints, tasks[k].event)
     IN  /\ groups' = [groups EXCEPT ![c][t] = d.group]
         /\ endpoints' = d.eps
         /\ tasks' = [tasks EXCEPT ![k] =
              IF d.result # "Ok"
                THEN [@ EXCEPT !.pc = "done",
                               !.result = IF tasks[k].op = "nack"
                                            THEN nack_result(d.result)
                                            ELSE d.result]
                ELSE IF tasks[k].i = Len(values_order[c])
                       THEN [@ EXCEPT !.pc = "done", !.result = "Ok"]
                       ELSE [@ EXCEPT !.pc = "p_group", !.i = @ + 1]]
  /\ UNCHANGED << values_order, envelopes, dispatch_log >>
  /\ ConcFrame

\* register_consumer, lines 73-75: the group's write().await resolves,
\* add_consumer pushes the sender of a new channel, both guards are
\* released and the receiver is returned.
RegisterAdd(k) ==
  /\ tasks[k].pc = "r_add"
  /\ group_write_ready(tasks[k].channel, tasks[k].tag)
  /\ LET c == tasks[k].channel
         t == tasks[k].tag
         e == Len(endpoints) + 1
     IN  /\ groups' = [groups EXCEPT ![c][t] = add_consumer(@, e)]
         /\ endpoints' = Append(endpoints, unbounded(c, config.requeue_on_nack, 0))
         /\ envelopes' = Append(envelopes, << >>)
         /\ tasks' = [tasks EXCEPT ![k].pc = "done", ![k].result = "Ok", ![k].rx = e]
  /\ UNCHANGED << values_order, dispatch_log >>
  /\ ConcFrame

\* StreamExt::next on stream e while calls are in progress: the next queued
\* event becomes an envelope.
Recv(e) ==
  /\ e \in DOMAIN endpoints
  /\ endpoints[e].rx = "live"
  /\ Queue(endpoints[e]) # << >>
  /\ endpoints' = [endpoints EXCEPT ![e].head = @ + 1]
  /\ envelopes' = [envelopes EXCEPT ![e] = Append(@,
       InMemoryAcker_new(endpoints[e].channel, Head(Queue(endpoints[e])),
                         endpoints[e].requeue))]
  /\ UNCHANGED << groups, values_order, tasks, dispatch_log >>
  /\ ConcFrame

ConcNext ==
  \/ \E k \in Tasks, c \in ConcChannels : CallPublish(k, c)
  \/ \E k \in Tasks, o \in ConcOptions : CallRegister(k, o[1], o[2])
  \/ \E k \in Tasks, id \in EnvelopeIds : CallNack(k, id[1], id[2])
  \/ \E k \in Tasks, id \in EnvelopeIds : CallAck(k, id[1], id[2])
  \/ \E k \in Tasks : PublishRead(k)
  \/ \E k \in Tasks : PublishGroupLock(k)
  \/ \E k \in Tasks : PublishDispatch(k)
  \/ \E k \in Tasks : RegisterAdd(k)
  \/ \E e \in DOMAIN endpoints : Recv(e)

ConcSpec == ConcInit /\ [][ConcNext]_vars

\* Number of streams the application drops while calls are in progress.
MaxDrops == 1

\* The application drops stream e while calls are in progress: its receiver
\* closes, and a send to its endpoint fails from then on.
ConcDropStream(e) ==
  /\ e \in DOMAIN endpoints
  /\ endpoints[e].rx = "live"
  /\ Cardinality({ d \in DOMAIN endpoints : endpoints[d].rx # "live" }) < MaxDrops
  /\ endpoints' = [endpoints EXCEPT ![e].rx = "dropped"]
  /\ UNCHANGED << groups, values_order, envelopes, tasks, dispatch_log >>
  /\ ConcFrame

\* The concurrent calls with streams dropped among them.
ConcDropNext ==
  \/ ConcNext
  \/ \E e \in DOMAIN endpoints : ConcDropStream(e)

ConcDropSpec == ConcInit /\ [][ConcDropNext]_vars

\* ------------------------------------------------ waiting for the registry
\*
\* The same calls with the wait for the registry lock as a position of its
\* own. The lock is mea::rwlock::RwLock (inner.rs line 7), and the order in
\* which it serves the calls waiting for it is left open: read() resolves
\* for any waiting call while no writer holds the lock, write() for any
\* waiting call while nobody holds it, so a call that started later may
\* pass one that waits. A call asks for the registry lock in its first poll
\* (nack right after its swap), and tasks are numbered in the order their
\* calls start.

\* The tasks queued on the registry lock: publish calls at groups.read(),
\* register_consumer calls at groups.write().
RegistryWaiters == { k \in Tasks : tasks[k].pc \in {"p_read", "r_wait"} }

\* Task k calls BrokerInner::publish(c, event) with an event of its own and
\* queues at groups.read() (line 79).
StartPublish(k, c) ==
  /\ tasks[k].pc = "idle"
  /\ IF k = 1 THEN TRUE ELSE tasks[k - 1].pc # "idle"
  /\ tasks' = [tasks EXCEPT ![k] =
       [ op |-> "publish", channel |-> c, tag |-> "", event |-> Event(k),
         pc |-> "p_read", i |-> 0, result |-> "pending", rx |-> 0 ]]
  /\ UNCHANGED << groups, values_order, endpoints, envelopes, dispatch_log >>
  /\ ConcFrame

\* Task k calls BrokerInner::register_consumer(c, t) and queues at
\* groups.write() (lines 66-68).
StartRegister(k, c, t) ==
  /\ tasks[k].pc = "idle"
  /\ IF k = 1 THEN TRUE ELSE tasks[k - 1].pc # "idle"
  /\ tasks' = [tasks EXCEPT ![k] =
       [ op |-> "register", channel |-> c, tag |-> t, event |-> NoEvent,
         pc |-> "r_wait", i |-> 0, result |-> "pending", rx |-> 0 ]]
  /\ UNCHANGED << groups, values_order, endpoints, envelopes, dispatch_log >>
  /\ ConcFrame

\* groups.read().await of task k resolves (line 79): no writer holds the
\* lock.
AcquireRead(k) ==
  /\ tasks[k].pc = "p_read"
  /\ groups_read_ready
  /\ tasks' = [tasks EXCEPT ![k] = read_groups(@)]
  /\ UNCHANGED << groups, values_order, endpoints, envelopes, dispatch_log >>
  /\ ConcFrame

\* groups.write().await of task k resolves (lines 66-68): nobody holds the
\* lock; the entries for the channel and the tag are made if missing
\* (lines 69-72).
AcquireWrite(k) ==
  /\ tasks[k].pc = "r_wait"
  /\ groups_write_ready
  /\ LET c == tasks[k].channel
         t == tasks[k].tag
         reg == entry_or_insert_with(groups, c, t)
         isNewTag == ~(c \in DOMAIN groups /\ t \in DOMAIN groups[c])
     IN  /\ groups' = reg
         /\ IF isNewTag
              THEN \E o \in Perms(DOMAIN reg[c]) :
                     values_order' = Insert(values_order, c, o)
              ELSE UNCHANGED values_order
  /\ tasks' = [tasks EXCEPT ![k].pc = "r_add"]
  /\ UNCHANGED << endpoints, envelopes, dispatch_log >>
  /\ ConcFrame

\* The steps the runtime makes for the call of task k once it has started.
TaskStep(k) ==
  \/ AcquireRead(k)
  \/ AcquireWrite(k)
  \/ PublishGroupLock(k)
  \/ PublishDispatch(k)
  \/ RegisterAdd(k)

QueueNext ==
  \/ \E k \in Tasks, c \in ConcChannels : StartPublish(k, c)
  \/ \E k \in Tasks, o \in ConcOptions : StartRegister(k, o[1], o[2])
  \/ \E k \in Tasks, id \in EnvelopeIds : CallNack(k, id[1], id[2])
  \/ \E k \in Tasks, id \in EnvelopeIds : CallAck(k, id[1], id[2])
  \/ \E k \in Tasks : TaskStep(k)
  \/ \E e \in DOMAIN endpoints : Recv(e)

QueueSpec == ConcInit /\ [][QueueNext]_vars

\* The position of every task in its call; every step of a call changes it.
task_pcs == [k \in Tasks |-> tasks[k].pc]

\* The registry lock is taken by one of the calls waiting for it.
RegistryGrant == \E k \in Tasks : AcquireRead(k) \/ AcquireWrite(k)

\* The lock of group (c, t) is taken by one of the publish calls waiting
\* for it.
GroupGrant(c, t) ==
  \E k \in Tasks :
    /\ tasks[k].pc = "p_group"
    /\ tasks[k].channel = c
    /\ CurrentTag(k) = t
    /\ PublishGroupLock(k)

\* Fair scheduling. The runtime polls a call that holds what its next step
\* needs: the dispatch of a call that holds a group lock, and the last
\* step of a registration that holds the registry lock, are taken. A lock
\* that stays free while calls wait for it is taken by one of them; which
\* one is left open, so no waiting call is promised the lock.
QueueFairSpec ==
  /\ QueueSpec
  /\ \A k \in Tasks : WF_task_pcs(PublishDispatch(k)) /\ WF_task_pcs(RegisterAdd(k))
  /\ WF_task_pcs(RegistryGrant)
  /\ \A o \in ConcOptions : WF_task_pcs(GroupGrant(o[1], o[2]))

\* ------------------------------------------------------------- event data
\*
\* Event, EventBuilder and the data views of enroute-core. A payload is a
\* typed value with its declared event type; its structured encoding is a
\* serde_json Value. A byte is a number of 0..255 and a String the sequence
\* of its characters, each the number of its code point; the bytes of a
\* String are its UTF-8 encoding.

\* Option<T>.
None == [some |-> FALSE, v |-> ""]

Some(x) == [some |-> TRUE, v |-> x]

\* serde_json::Value.
JNull == [t |-> "null", v |-> 0]

JBool(b) == [t |-> "bool", v |-> b]

JNum(n) == [t |-> "num", v |-> n]

\* A float, as its sign and its shortest decimal form m * 10^e, m being the
\* text of the digits: "0" with e = 0 for zero.
JFloat(neg, m, e) == [t |-> "float", v |-> [neg |-> neg, m |-> m, e |-> e]]

JStr(s) == [t |-> "str", v |-> s]

JArr(items) == [t |-> "arr", v |-> items]

JObj(members) == [t |-> "obj", v |-> members]

\* Result<T, Error>.
Ok(x) == [ok |-> TRUE, v |-> x, error |-> ""]

Err(kind) == [ok |-> FALSE, v |-> 0, error |-> kind]

\* The printable ASCII characters from the space (byte 32) to the
\* underscore (byte 95), and from a (byte 97) to the tilde (byte 126).
Alphabet == << " ", "!", "\"", "#", "$", "%", "&", "'", "(", ")", "*", "+",
              ",", "-", ".", "/", "0", "1", "2", "3", "4", "5", "6", "7",
              "8", "9", ":", ";", "<", "=", ">", "?", "@", "A", "B", "C",
              "D", "E", "F", "G", "H", "I", "J", "K", "L", "M", "N", "O",
              "P", "Q", "R", "S", "T", "U", "V", "W", "X", "Y", "Z", "[",
              "\\", "]", "^", "_", "a", "b", "c", "d", "e", "f", "g", "h",
              "i", "j", "k", "l", "m", "n", "o", "p", "q", "r", "s", "t",
              "u", "v", "w", "x", "y", "z", "{", "|", "}", "~" >>

\* The byte of one of these characters.
Ord(ch) ==
  LET i == CHOOSE j \in DOMAIN Alphabet : Alphabet[j] = ch
  IN  IF i <= 64 THEN 31 + i ELSE 32 + i

\* A text written in printable ASCII characters: its bytes, which are its
\* characters as well.
Text(chars) == [i \in DOMAIN chars |-> Ord(chars[i])]

\* char::encode_utf8: the bytes of a character.
encode_utf8(ch) ==
  IF ch < 128 THEN << ch >>
  ELSE IF ch < 2048 THEN << 192 + (ch \div 64), 128 + (ch % 64) >>
  ELSE IF ch < 65536 THEN
    << 224 + (ch \div 4096), 128 + ((ch \div 64) % 64), 128 + (ch % 64) >>
  ELSE << 240 + (ch \div 262144), 128 + ((ch \div 4096) % 64),
          128 + ((ch \div 64) % 64), 128 + (ch % 64) >>

\* Op applied to value, with value computed once however often Op uses it.
With(value, Op(_)) == CHOOSE out \in { Op(x) : x \in {value} } : TRUE

\* The first position from p on whose element is one of Stop, the position
\* after the end when there is none.
FirstAt(seq, p, Stop(_)) ==
  LET stops == { i \in p..Len(seq) : Stop(seq[i]) }
  IN  IF stops = {} THEN Len(seq) + 1
      ELSE CHOOSE i \in stops : \A j \in stops : i <= j

\* str::as_bytes: the UTF-8 bytes of a String; a run of ASCII characters is
\* its own bytes.
RECURSIVE as_bytes(_)
as_bytes(s) ==
  With(FirstAt(s, 1, LAMBDA ch : ch >= 128),
       LAMBDA q :
         IF q > Len(s) THEN s
         ELSE SubSeq(s, 1, q - 1) \o encode_utf8(s[q])
                \o as_bytes(SubSeq(s, q + 1, Len(s))))

\* The byte at position p, 0 past the end (peek_or_null).
peek_or_null(bytes, p) == IF p \in DOMAIN bytes THEN bytes[p] ELSE 0

\* The character whose UTF-8 bytes start at position p, as [ok, v, pos]:
\* one to four bytes, with no overlong form, no surrogate and nothing
\* beyond U+10FFFF (the validation of str::from_utf8).
next_code_point(bytes, p) ==
  LET b0 == peek_or_null(bytes, p)
      b1 == peek_or_null(bytes, p + 1)
      b2 == peek_or_null(bytes, p + 2)
      b3 == peek_or_null(bytes, p + 3)
      Cont(b) == b \in 128..191
      bad == [ok |-> FALSE, v |-> 0, pos |-> 0]
  IN  IF p \notin DOMAIN bytes THEN bad
      ELSE IF b0 < 128 THEN [ok |-> TRUE, v |-> b0, pos |-> p + 1]
      ELSE IF b0 \in 194..223 THEN
        (IF Cont(b1)
           THEN [ok |-> TRUE, v |-> (b0 - 192) * 64 + (b1 - 128), pos |-> p + 2]
           ELSE bad)
      ELSE IF b0 \in 224..239 THEN
        (IF /\ Cont(b1) /\ Cont(b2)
            /\ (b0 = 224 => b1 >= 160)
            /\ (b0 = 237 => b1 <= 159)
           THEN [ok |-> TRUE,
                 v |-> (b0 - 224) * 4096 + (b1 - 128) * 64 + (b2 - 128),
                 pos |-> p + 3]
           ELSE bad)
      ELSE IF b0 \in 240..244 THEN
        (IF /\ Cont(b1) /\ Cont(b2) /\ Cont(b3)
            /\ (b0 = 240 => b1 >= 144)
            /\ (b0 = 244 => b1 <= 143)
           THEN [ok |-> TRUE,
                 v |-> (b0 - 240) * 262144 + (b1 - 128) * 4096
                         + (b2 - 128) * 64 + (b3 - 128),
                 pos |-> p + 4]
           ELSE bad)
      ELSE bad

\* String::from_utf8(bytes): the characters of bytes that are valid UTF-8;
\* a run of ASCII bytes is its own characters.
RECURSIVE from_utf8_at(_, _, _)
from_utf8_at(bytes, p, acc) ==
  With(FirstAt(bytes, p, LAMBDA b : b >= 128),
       LAMBDA q :
         IF q > Len(bytes) THEN Ok(acc \o SubSeq(bytes, p, Len(bytes)))
         ELSE With(next_code_point(bytes, q),
                   LAMBDA ch :
                     IF ch.ok
                       THEN from_utf8_at(bytes, ch.pos,
                                         acc \o SubSeq(bytes, p, q - 1) \o << ch.v >>)
                       ELSE Err("invalid utf-8")))

from_utf8(bytes) == from_utf8_at(bytes, 1, << >>)

\* str < str, which is the order of the UTF-8 bytes (the key order of
\* serde_json::Map).
RECURSIVE StrLess(_, _)
StrLess(a, b) ==
  IF b = << >> THEN FALSE
  ELSE IF a = << >> THEN TRUE
  ELSE IF Head(a) = Head(b) THEN StrLess(Tail(a), Tail(b))
  ELSE Head(a) < Head(b)

\* Map::insert(key, value) on members sorted by key: a present key gets the
\* new value.
RECURSIVE MapInsert(_, _, _)
MapInsert(members, key, value) ==
  IF members = << >> THEN << << key, value >> >>
  ELSE IF Head(members)[1] = key THEN << << key, value >> >> \o Tail(members)
  ELSE IF StrLess(key, Head(members)[1]) THEN << << key, value >> >> \o members
  ELSE << Head(members) >> \o MapInsert(Tail(members), key, value)

\* serde_json::to_value of a typed payload value: Ok(Value), or Err when a
\* map has keys that are not strings. An f64 that is finite is a float, and
\* one that is not (NaN, an infinity) is null.
RECURSIVE to_value(_)
RECURSIVE to_value_items(_)
RECURSIVE to_value_fields(_)
to_value(x) ==
  IF x.t = "unit" THEN Ok(JNull)
  ELSE IF x.t = "bool" THEN Ok(JBool(x.v))
  ELSE IF x.t = "i64" THEN Ok(JNum(x.v))
  ELSE IF x.t = "f64" THEN
    (IF x.v.finite THEN Ok(JFloat(x.v.neg, x.v.m, x.v.e)) ELSE Ok(JNull))
  ELSE IF x.t = "String" THEN Ok(JStr(x.v))
  ELSE IF x.t = "Option" THEN (IF x.v = << >> THEN Ok(JNull) ELSE to_value(x.v[1]))
  ELSE IF x.t = "Vec" THEN
    LET r == to_value_items(x.v) IN IF r.ok THEN Ok(JArr(r.v)) ELSE r
  ELSE IF x.t = "struct" THEN
    LET r == to_value_fields(x.v) IN IF r.ok THEN Ok(JObj(r.v)) ELSE r
  ELSE Err("key must be a string")

to_value_items(xs) ==
  IF xs = << >> THEN Ok(<< >>)
  ELSE LET h == to_value(Head(xs))
           r == to_value_items(Tail(xs))
       IN  IF ~h.ok THEN h ELSE IF ~r.ok THEN r ELSE Ok(<< h.v >> \o r.v)

to_value_fields(fs) ==
  IF fs = << >> THEN Ok(<< >>)
  ELSE LET r == to_value_fields(SubSeq(fs, 1, Len(fs) - 1))
           h == to_value(fs[Len(fs)][2])
       IN  IF ~r.ok THEN r ELSE IF ~h.ok THEN h
           ELSE Ok(MapInsert(r.v, fs[Len(fs)][1], h.v))

\* The decimal digits of a natural number (itoa).
RECURSIVE NatToChars(_)
NatToChars(n) ==
  IF n < 10 THEN << 48 + n >>
  ELSE NatToChars(n \div 10) \o << 48 + (n % 10) >>

IntToChars(n) ==
  IF n < 0 THEN << Ord("-") >> \o NatToChars(0 - n) ELSE NatToChars(n)

\* ------------------------------------------------------------ large numbers
\*
\* The arithmetic of f64 takes whole numbers far beyond u64: a natural
\* number of any size is the sequence of its limbs, its digits to the base
\* 2^15 from the lowest on, the highest not zero; zero is the empty
\* sequence. Every operation on them, and on f64 below, is an operation
\* of Arith, which takes the name of the operation and its operands, so
\* that operands are worked out once, before the operation.
RECURSIVE Arith(_, _)

Limb == 2^15

LimbAt(a, i) == IF i \in 1..Len(a) THEN a[i] ELSE 0

\* The limbs without zeros at the high end.
NormLimbs(a) ==
  IF \A i \in 1..Len(a) : a[i] = 0 THEN << >>
  ELSE SubSeq(a, 1, CHOOSE i \in 1..Len(a) :
                      a[i] # 0 /\ \A j \in (i + 1)..Len(a) : a[j] = 0)

BigNorm(a) == Arith("BigNorm", << a >>)

\* The limbs of a number n that is no limb sequence yet.
RECURSIVE BigOf(_)
BigOf(n) == IF n = 0 THEN << >> ELSE << n % Limb >> \o BigOf(n \div Limb)

\* The number of a limb sequence below 2^30.
BigToNat(a) == LimbAt(a, 1) + LimbAt(a, 2) * Limb

\* One pass of carries: every limb keeps its part below the base and takes
\* what the limb below it has above the base.
PassLimbs(u) ==
  << >> \o [i \in 1..(Len(u) + 1) |->
              (LimbAt(u, i) % Limb) + (LimbAt(u, i - 1) \div Limb)]

Pass(u) == Arith("Pass", << u >>)

\* The last carries, of limbs that are at most the base: a limb takes a
\* carry when, of the limbs below it, the nearest that is not base - 1 is
\* the base.
CarryIn(y, i) ==
  \E j \in 1..(i - 1) : y[j] = Limb /\ \A m \in (j + 1)..(i - 1) : y[m] = Limb - 1

RippleLimbs(y) ==
  IF \A j \in 1..Len(y) : y[j] # Limb THEN y
  ELSE << >> \o [i \in 1..Len(y) |->
                   (y[i] + (IF CarryIn(y, i) THEN 1 ELSE 0)) % Limb]

Ripple(y) == Arith("Ripple", << y >>)

\* The limbs of the number that u holds in limbs not yet carried, each
\* below 2^30: two passes leave limbs that are at most the base. The
\* result is two limbs longer than u.
Carried(u) == Ripple(Pass(Pass(u)))

Carry(u) == BigNorm(Carried(u))

\* a * s for s up to 2^15.
MulSmallLimbs(a, s) == Carry([i \in 1..Len(a) |-> a[i] * s])

BigMulSmall(a, s) == Arith("BigMulSmall", << a, s >>)

\* a + b.
AddLimbs(a, b) ==
  Carry([i \in 1..(IF Len(a) >= Len(b) THEN Len(a) ELSE Len(b)) |->
           LimbAt(a, i) + LimbAt(b, i)])

BigAdd(a, b) == Arith("BigAdd", << a, b >>)

\* a - b for a >= b: a plus the complement of b, without the carry out of
\* the highest limb.
SubLimbs(a, b) ==
  BigNorm(SubSeq(Carried([i \in 1..Len(a) |->
                   a[i] + (Limb - 1 - LimbAt(b, i)) + (IF i = 1 THEN 1 ELSE 0)]),
                 1, Len(a)))

BigSub(a, b) == Arith("BigSub", << a, b >>)

\* a < b and a <= b.
LessLimbs(a, b) ==
  IF Len(a) # Len(b) THEN Len(a) < Len(b)
  ELSE \E i \in 1..Len(a) : a[i] < b[i] /\ \A j \in (i + 1)..Len(a) : a[j] = b[j]

BigLess(a, b) == Arith("BigLess", << a, b >>)

BigLeq(a, b) == ~BigLess(b, a)

\* a * (2^15)^k.
ShiftLimbs(a, k) == IF a = << >> THEN << >> ELSE [i \in 1..k |-> 0] \o a

BigShift(a, k) == Arith("BigShift", << a, k >>)

\* a * b, by the lower and the higher half of the limbs of b.
BigMul(a, b) == Arith("BigMul", << a, b >>)

MulLimbs(a, b) ==
  IF Len(b) <= 1 THEN BigMulSmall(a, LimbAt(b, 1))
  ELSE BigAdd(BigMul(a, SubSeq(b, 1, Len(b) \div 2)),
              BigShift(BigMul(a, SubSeq(b, (Len(b) \div 2) + 1, Len(b))),
                       Len(b) \div 2))

\* a * 2^k.
BigTimesPow2(a, k) == BigShift(BigMulSmall(a, 2^(k % 15)), k \div 15)

BigPow2(k) == BigTimesPow2(<< 1 >>, k)

\* a * 2^e, and a when e is negative.
TimesTwoTo(a, e) == IF e > 0 THEN BigTimesPow2(a, e) ELSE a

\* 10^k, by the square of 10^(k \div 2).
BigPow10(k) == Arith("BigPow10", << k >>)

SquareTimes(half, s) == BigMulSmall(BigMul(half, half), s)

Pow10Limbs(k) ==
  IF k <= 4 THEN << 10^k >> ELSE SquareTimes(BigPow10(k \div 2), 10^(k % 2))

\* The number of bits of a.
Bits(a) ==
  IF a = << >> THEN 0
  ELSE 15 * (Len(a) - 1)
         + CHOOSE b \in 1..15 : a[Len(a)] \in (2^(b - 1))..(2^b - 1)

\* t \div d for t below d * 2^15. With top, the limbs of t above the
\* highest limb of d and the one beside it, the quotient is at least top
\* by that limb plus one, and at most top plus one by that limb.
QuotLimbIn(t, d, top) ==
  CHOOSE q \in (top \div (d[Len(d)] + 1))
                 ..(IF (top + 1) \div d[Len(d)] > Limb - 1 THEN Limb - 1
                    ELSE (top + 1) \div d[Len(d)]) :
    /\ BigLeq(BigMulSmall(d, q), t)
    /\ BigLess(t, BigMulSmall(d, q + 1))

QuotLimbOf(t, d) ==
  QuotLimbIn(t, d, LimbAt(t, Len(d)) + LimbAt(t, Len(d) + 1) * Limb)

QuotLimb(t, d) == Arith("QuotLimb", << t, d >>)

\* [q, r] with n = q * d + r and r below d: the limbs of n above the
\* lowest are divided first, and what is left of them with the lowest limb
\* gives the lowest limb of the quotient.
BigDivMod(n, d) == Arith("BigDivMod", << n, d >>)

DivModLast(t, d, high, q0) ==
  [q |-> BigNorm(<< q0 >> \o high.q), r |-> BigSub(t, BigMulSmall(d, q0))]

DivModStep(t, d, high) == Arith("DivModLast", << t, d, high, QuotLimb(t, d) >>)

DivModLimbs(n, d) ==
  IF LessLimbs(n, d) THEN [q |-> << >>, r |-> n]
  ELSE Arith("DivModStep", << n, d, BigDivMod(Tail(n), d) >>)

\* n \div d, for d that is not zero: both are taken times the same number
\* first, so that the highest limb of d is at least half the base.
DivLimbs(n, d) ==
  BigDivMod(BigMulSmall(n, Limb \div (d[Len(d)] + 1)),
            BigMulSmall(d, Limb \div (d[Len(d)] + 1))).q

BigDiv(n, d) == Arith("BigDiv", << n, d >>)

\* The decimal digits of a, four at a time from the end.
BigToChars(a) == Arith("BigToChars", << a >>)

CharsWith(a, q) ==
  BigToChars(q) \o Tail(NatToChars(10000 + BigToNat(BigSub(a, BigMulSmall(q, 10000)))))

ToCharsLimbs(a) ==
  IF Len(a) <= 2 THEN NatToChars(BigToNat(a))
  ELSE Arith("CharsWith", << a, BigDiv(a, << 10000 >>) >>)

\* n zero digits.
Zeros(n) == [i \in 1..n |-> 48]

\* The text of a float (as serde_json writes a finite f64): with the
\* digits of its shortest decimal form, k the exponent of the last digit and
\* kk the position of the decimal point, a whole number ends in ".0", a
\* point within the first 16 places is written in place, up to five zeros
\* lead a small fraction, and every other value has an exponent, which
\* carries its sign, plus as well as minus.
FloatToChars(f) ==
  LET sign == IF f.neg THEN << Ord("-") >> ELSE << >>
      digits == f.m
      length == Len(digits)
      k == f.e
      kk == length + k
  IN  IF f.m = << 48 >> THEN sign \o Text(<< "0", ".", "0" >>)
      ELSE IF 0 <= k /\ kk <= 16 THEN
        sign \o digits \o Zeros(k) \o Text(<< ".", "0" >>)
      ELSE IF 0 < kk /\ kk <= 16 THEN
        sign \o SubSeq(digits, 1, kk) \o << Ord(".") >> \o SubSeq(digits, kk + 1, length)
      ELSE IF 0 - 5 < kk /\ kk <= 0 THEN
        sign \o Text(<< "0", "." >>) \o Zeros(0 - kk) \o digits
      ELSE sign \o << digits[1] >>
             \o (IF length = 1 THEN << >> ELSE << Ord(".") >> \o Tail(digits))
             \o << Ord("e") >>
             \o (IF kk - 1 >= 0 THEN << Ord("+") >> ELSE << >>)
             \o IntToChars(kk - 1)

\* A hexadecimal digit, lower case.
HexDigit(n) == IF n < 10 THEN 48 + n ELSE 87 + n

\* The JSON text of the characters of a string (format_escaped_str_contents):
\* quote and backslash get a backslash, a control character its short
\* escape or \u00xx, a run of other characters is written as it is.
RECURSIVE EscapeChars(_)
EscapeChars(s) ==
  With(FirstAt(s, 1, LAMBDA ch : ch = Ord("\"") \/ ch = Ord("\\") \/ ch < 32
                                   \/ ch >= 128),
       LAMBDA q :
         IF q > Len(s) THEN s
         ELSE LET ch == s[q]
                  out == IF ch = Ord("\"") \/ ch = Ord("\\") THEN << Ord("\\"), ch >>
                         ELSE IF ch = 8 THEN Text(<< "\\", "b" >>)
                         ELSE IF ch = 9 THEN Text(<< "\\", "t" >>)
                         ELSE IF ch = 10 THEN Text(<< "\\", "n" >>)
                         ELSE IF ch = 12 THEN Text(<< "\\", "f" >>)
                         ELSE IF ch = 13 THEN Text(<< "\\", "r" >>)
                         ELSE IF ch < 32 THEN
                           Text(<< "\\", "u", "0", "0" >>)
                             \o << HexDigit(ch \div 16), HexDigit(ch % 16) >>
                         ELSE encode_utf8(ch)
              IN  SubSeq(s, 1, q - 1) \o out \o EscapeChars(SubSeq(s, q + 1, Len(s))))

QuoteChars(s) == << Ord("\"") >> \o EscapeChars(s) \o << Ord("\"") >>

\* serde_json::to_vec(value): the compact JSON text.
RECURSIVE to_vec(_)
RECURSIVE to_vec_items(_)
RECURSIVE to_vec_members(_)
to_vec(value) ==
  IF value.t = "null" THEN Text(<< "n", "u", "l", "l" >>)
  ELSE IF value.t = "bool" THEN
    (IF value.v THEN Text(<< "t", "r", "u", "e" >>)
                ELSE Text(<< "f", "a", "l", "s", "e" >>))
  ELSE IF value.t = "num" THEN IntToChars(value.v)
  ELSE IF value.t = "float" THEN FloatToChars(value.v)
  ELSE IF value.t = "str" THEN QuoteChars(value.v)
  ELSE IF value.t = "arr" THEN
    << Ord("[") >> \o to_vec_items(value.v) \o << Ord("]") >>
  ELSE << Ord("{") >> \o to_vec_members(value.v) \o << Ord("}") >>

to_vec_items(items) ==
  IF items = << >> THEN << >>
  ELSE to_vec(Head(items))
         \o (IF Tail(items) = << >> THEN << >>
             ELSE << Ord(",") >> \o to_vec_items(Tail(items)))

to_vec_members(members) ==
  IF members = << >> THEN << >>
  ELSE QuoteChars(Head(members)[1]) \o << Ord(":") >> \o to_vec(Head(members)[2])
         \o (IF Tail(members) = << >> THEN << >>
             ELSE << Ord(",") >> \o to_vec_members(Tail(members)))

\* The parser of serde_json::from_slice. A parse step returns
\* [ok, v, pos]: the value read and the position after it.
POk(x, p) == [ok |-> TRUE, v |-> x, pos |-> p]

PErr == [ok |-> FALSE, v |-> 0, pos |-> 0]

\* bytes has the characters of word at position p.
HasWord(bytes, p, word) ==
  /\ p + Len(word) - 1 <= Len(bytes)
  /\ SubSeq(bytes, p, p + Len(word) - 1) = Text(word)

\* The position of the first byte from p on that is no space, line feed,
\* tab or carriage return.
RECURSIVE parse_whitespace(_, _)
parse_whitespace(bytes, p) ==
  IF peek_or_null(bytes, p) \in {32, 10, 9, 13}
    THEN parse_whitespace(bytes, p + 1)
    ELSE p

IsDigit(b) == b \in 48..57

\* n is within u64: 0 <= n < 2^64.
FitsU64(n) == (((n \div 2^16) \div 2^16) \div 2^16) \div 2^16 = 0

\* n is within i64: -2^63 <= n < 2^63.
FitsI64(n) == ((n \div 2^21) \div 2^21) \div 2^21 \in {0 - 1, 0}

\* i32::saturating_add and saturating_sub.
saturating_add(a, b) ==
  IF b > 0 /\ a > 2147483647 - b THEN 2147483647
  ELSE IF b < 0 /\ a < (0 - 2147483647 - 1) - b THEN 0 - 2147483647 - 1
  ELSE a + b

saturating_sub(a, b) ==
  IF b < 0 /\ a > 2147483647 + b THEN 2147483647
  ELSE IF b > 0 /\ a < (0 - 2147483647 - 1) + b THEN 0 - 2147483647 - 1
  ELSE a - b

\* The digits from position p on taken into significand as long as it
\* stays within u64 (the loop of parse_integer and of parse_decimal):
\* [v, pos, over], with over when a digit is left that would take it
\* beyond u64::MAX.
RECURSIVE ParseDigits(_, _, _)
ParseDigits(bytes, p, significand) ==
  IF ~IsDigit(peek_or_null(bytes, p))
    THEN [v |-> significand, pos |-> p, over |-> FALSE]
  ELSE IF ~FitsU64(significand * 10 + (bytes[p] - 48))
    THEN [v |-> significand, pos |-> p, over |-> TRUE]
  ELSE ParseDigits(bytes, p + 1, significand * 10 + (bytes[p] - 48))

\* The position after the digits from position p on.
SkipDigits(bytes, p) == FirstAt(bytes, p, LAMBDA b : ~IsDigit(b))

\* The digits of an exponent from position p on taken into exp as long as
\* it stays within i32 (the loop of parse_exponent): [v, pos, over].
RECURSIVE ParseExponentDigits(_, _, _)
ParseExponentDigits(bytes, p, exp) ==
  LET digit == bytes[p] - 48
  IN  IF ~IsDigit(peek_or_null(bytes, p))
        THEN [v |-> exp, pos |-> p, over |-> FALSE]
      ELSE IF /\ exp >= 2147483647 \div 10
              /\ (exp > 2147483647 \div 10 \/ digit > 2147483647 % 10)
        THEN [v |-> exp, pos |-> p, over |-> TRUE]
      ELSE ParseExponentDigits(bytes, p + 1, exp * 10 + digit)

\* significand * 10^exponent without the zeros at the end of significand.
RECURSIVE Shortest(_, _)
Shortest(significand, exponent) ==
  IF significand = 0 THEN [m |-> 0, e |-> 0]
  ELSE IF significand % 10 = 0 THEN Shortest(significand \div 10, exponent + 1)
  ELSE [m |-> significand, e |-> exponent]

\* The decimal form [m, e] of significand * 10^exponent, m being the text
\* of the digits without zeros at the end.
ShortestDecimal(significand, exponent) ==
  [m |-> NatToChars(Shortest(significand, exponent).m),
   e |-> Shortest(significand, exponent).e]

\* A finite f64 that is not negative is [inf |-> FALSE, mant, exp2]: the
\* number mant * 2^exp2 with mant, a large number, below 2^53 and, unless
\* exp2 is -1074 (a subnormal or zero), at least 2^52. Its exp2 is at most
\* 971.
Infinity == [inf |-> TRUE, mant |-> << >>, exp2 |-> 0]

Finite(mant, exp2) ==
  IF exp2 > 971 THEN Infinity ELSE [inf |-> FALSE, mant |-> mant, exp2 |-> exp2]

\* n / d to the nearest integer, a tie to the even one, q being n \div d
\* and twice the double of what is left.
RoundUp(d, q, twice) ==
  IF BigLess(d, twice) \/ (twice = d /\ LimbAt(q, 1) % 2 = 1)
    THEN BigAdd(q, << 1 >>)
    ELSE q

RoundQuotient(n, d, q) ==
  Arith("RoundUp", << d, q, BigMulSmall(BigSub(n, BigMul(d, q)), 2) >>)

RoundHalfEvenOf(n, d) == Arith("RoundQuotient", << n, d, BigDiv(n, d) >>)

RoundHalfEven(n, d) == Arith("RoundHalfEven", << n, d >>)

\* The fraction n / d is in the binade of exp2: n / d divided by 2^exp2 is
\* below 2^53 and, unless exp2 is -1074, at least 2^52.
InBinadeOf(n, d, exp2) ==
  /\ exp2 = 0 - 1074 \/ BigLeq(BigTimesPow2(d, 52), n)
  /\ BigLess(n, BigTimesPow2(d, 53))

InBinade(n, d, exp2) ==
  Arith("InBinade", << TimesTwoTo(n, 0 - exp2), TimesTwoTo(d, exp2), exp2 >>)

\* The binades that n / d can be in by the numbers of bits of n and d, none
\* below that of the subnormals.
BinadesNear(n, d) ==
  { IF e < 0 - 1074 THEN 0 - 1074 ELSE e :
      e \in { Bits(n) - Bits(d) - 53, Bits(n) - Bits(d) - 52 } }

\* The mantissa rounded in a binade, taken to the next binade when it
\* rounds up to 2^53.
Rounded(mant, exp2) ==
  IF mant = BigPow2(53) THEN Finite(BigPow2(52), exp2 + 1) ELSE Finite(mant, exp2)

RoundIn(n, d, exp2) ==
  Arith("Rounded",
        << RoundHalfEven(TimesTwoTo(n, 0 - exp2), TimesTwoTo(d, exp2)), exp2 >>)

\* The f64 nearest to the fraction n / d of two large numbers, a tie to
\* the even mantissa: the result of an operation on f64 whose exact result
\* is n / d. A number of 2^1024 or more after rounding is infinity.
F64OfLimbs(n, d) ==
  IF n = << >> THEN Finite(<< >>, 0 - 1074)
  ELSE RoundIn(n, d, CHOOSE exp2 \in BinadesNear(n, d) : InBinade(n, d, exp2))

F64Of(n, d) == Arith("F64Of", << n, d >>)

\* a * b and a / b of two finite f64.
F64MulOf(a, b) ==
  F64Of(TimesTwoTo(BigMul(a.mant, b.mant), a.exp2 + b.exp2),
        TimesTwoTo(<< 1 >>, 0 - (a.exp2 + b.exp2)))

F64Mul(a, b) == Arith("F64Mul", << a, b >>)

F64DivOf(a, b) ==
  F64Of(TimesTwoTo(a.mant, a.exp2 - b.exp2), TimesTwoTo(b.mant, b.exp2 - a.exp2))

F64Div(a, b) == Arith("F64Div", << a, b >>)

\* POW10[k], the f64 written 1e0 to 1e308.
POW10(k) == F64Of(BigPow10(k), << 1 >>)

\* The loop of f64_from_parts: f times or by the power of ten of the table,
\* by 1e308 first as often as the exponent is below the table; infinity
\* stands for the error of a number out of range.
F64Scale(f, exponent) == Arith("F64Scale", << f, exponent >>)

F64ScaleOf(f, exponent) ==
  IF exponent \in 0..308 THEN F64Mul(f, POW10(exponent))
  ELSE IF exponent \in (0 - 308)..0 THEN F64Div(f, POW10(0 - exponent))
  ELSE IF f.mant = << >> THEN f
  ELSE IF exponent >= 0 THEN Infinity
  ELSE F64Scale(F64Div(f, POW10(308)), exponent + 308)

\* The numbers that round to the f64 f lie between the middle to the f64
\* below and the middle to the one above, the middles included when the
\* mantissa is even: between Below(f) and Above(f) quarters of 2^exp2, f
\* being 4 * mant of them. The f64 below a power of two is at half the
\* distance.
Below(f) ==
  BigSub(BigMulSmall(f.mant, 4),
         IF f.mant = BigPow2(52) /\ f.exp2 > 0 - 1074 THEN << 1 >> ELSE << 2 >>)

Above(f) == BigAdd(BigMulSmall(f.mant, 4), << 2 >>)

\* A quarter of 2^exp2 is DecUnit(f, k), and 10^k is DecStep(f, k), of the
\* largest unit that both are whole numbers of.
DecUnit(f, k) ==
  TimesTwoTo(IF k < 0 THEN BigPow10(0 - k) ELSE << 1 >>, f.exp2 - 2)

DecStep(f, k) ==
  TimesTwoTo(IF k > 0 THEN BigPow10(k) ELSE << 1 >>, 2 - f.exp2)

Between(lo, x, hi, closed) ==
  IF closed THEN BigLeq(lo, x) /\ BigLeq(x, hi) ELSE BigLess(lo, x) /\ BigLess(x, hi)

\* The distance of d * 10^k from f, in the unit of DecUnit and DecStep.
AbsDiff(a, b) == IF BigLess(a, b) THEN BigSub(b, a) ELSE BigSub(a, b)

Dist(f, d, k) ==
  Arith("AbsDiff", << BigMul(DecStep(f, k), d),
                      BigMul(DecUnit(f, k), BigMulSmall(f.mant, 4)) >>)

\* The multiples d * 10^k next to f, below and above, that round to f, d
\* not zero: q is f by 10^k, and lo and hi are the ends of the numbers
\* that round to f.
NearestOf(f, step, lo, hi, q) ==
  { d \in { q, BigAdd(q, << 1 >>) } :
      /\ d # << >>
      /\ Between(lo, BigMul(step, d), hi, LimbAt(f.mant, 1) % 2 = 0) }

NearestIn(f, unit, step) ==
  Arith("NearestOf", << f, step, BigMul(unit, Below(f)), BigMul(unit, Above(f)),
                        BigDiv(BigMul(unit, BigMulSmall(f.mant, 4)), step) >>)

Nearest(f, k) == Arith("Nearest", << f, DecUnit(f, k), DecStep(f, k) >>)

\* Of the multiples of 10^k that round to f the one nearest to f, of two
\* at the same distance the even one, as the text of its digits.
ClosestIn(f, k, near) ==
  [m |-> BigToChars(CHOOSE d \in near :
                      \A c \in near :
                        \/ d = c
                        \/ BigLess(Dist(f, d, k), Dist(f, c, k))
                        \/ Dist(f, d, k) = Dist(f, c, k) /\ LimbAt(d, 1) % 2 = 0),
   e |-> k]

Closest(f, k) == Arith("Closest", << f, k, Nearest(f, k) >>)

\* The largest k of lo..hi with a multiple of 10^k that rounds to f, when
\* there is one of 10^lo: there is one of every power of ten below such a
\* power.
LargestExponent(f, lo, hi) == Arith("LargestExponent", << f, lo, hi >>)

LargestExponentOf(f, lo, hi) ==
  IF lo = hi THEN lo
  ELSE IF Nearest(f, (lo + hi + 1) \div 2) # {}
    THEN LargestExponent(f, (lo + hi + 1) \div 2, hi)
  ELSE LargestExponent(f, lo, ((lo + hi + 1) \div 2) - 1)

\* A k with 10^k above the numbers that round to f, which are below
\* 2^(bits + 1) for a mantissa of so many bits: 30103 / 100000 is a little
\* more than the logarithm of 2 to the base 10. Twenty powers of ten below
\* it there is a number of seventeen digits that rounds to f.
ExponentAbove(f) == (((Bits(f.mant) + f.exp2 + 1) * 30103) \div 100000) + 1

\* The shortest decimal form [m, e] of a finite f64, which is how a float
\* is kept here and what Display and serde_json write: the number m * 10^e
\* with the fewest digits that rounds to f and, of these, the one nearest
\* to f; m is the text of the digits.
ToDecimalOf(f) ==
  IF f.mant = << >> THEN [m |-> << 48 >>, e |-> 0]
  ELSE Closest(f, LargestExponent(f, ExponentAbove(f) - 20, ExponentAbove(f)))

ToDecimal(f) == Arith("ToDecimal", << f >>)

\* significand as f64: the f64 nearest to a u64.
AsF64(significand) == F64Of(BigOf(significand), << 1 >>)

\* The operation op on the operands x.
ArithOf(op, x) ==
  CASE op = "BigNorm" -> NormLimbs(x[1])
    [] op = "Pass" -> PassLimbs(x[1])
    [] op = "Ripple" -> RippleLimbs(x[1])
    [] op = "BigMulSmall" -> MulSmallLimbs(x[1], x[2])
    [] op = "BigAdd" -> AddLimbs(x[1], x[2])
    [] op = "BigSub" -> SubLimbs(x[1], x[2])
    [] op = "BigLess" -> LessLimbs(x[1], x[2])
    [] op = "BigShift" -> ShiftLimbs(x[1], x[2])
    [] op = "BigMul" -> MulLimbs(x[1], x[2])
    [] op = "BigPow10" -> Pow10Limbs(x[1])
    [] op = "QuotLimb" -> QuotLimbOf(x[1], x[2])
    [] op = "BigDivMod" -> DivModLimbs(x[1], x[2])
    [] op = "DivModStep" -> DivModStep(BigNorm(<< Head(x[1]) >> \o x[3].r), x[2], x[3])
    [] op = "DivModLast" -> DivModLast(x[1], x[2], x[3], x[4])
    [] op = "BigDiv" -> DivLimbs(x[1], x[2])
    [] op = "BigToChars" -> ToCharsLimbs(x[1])
    [] op = "CharsWith" -> CharsWith(x[1], x[2])
    [] op = "RoundUp" -> RoundUp(x[1], x[2], x[3])
    [] op = "RoundQuotient" -> RoundQuotient(x[1], x[2], x[3])
    [] op = "RoundHalfEven" -> RoundHalfEvenOf(x[1], x[2])
    [] op = "InBinade" -> InBinadeOf(x[1], x[2], x[3])
    [] op = "Rounded" -> Rounded(x[1], x[2])
    [] op = "F64Of" -> F64OfLimbs(x[1], x[2])
    [] op = "F64Mul" -> F64MulOf(x[1], x[2])
    [] op = "F64Div" -> F64DivOf(x[1], x[2])
    [] op = "F64Scale" -> F64ScaleOf(x[1], x[2])
    [] op = "AbsDiff" -> AbsDiff(x[1], x[2])
    [] op = "NearestOf" -> NearestOf(x[1], x[2], x[3], x[4], x[5])
    [] op = "Nearest" -> NearestIn(x[1], x[2], x[3])
    [] op = "Closest" -> ClosestIn(x[1], x[2], x[3])
    [] op = "LargestExponent" -> LargestExponentOf(x[1], x[2], x[3])
    [] op = "ToDecimal" -> ToDecimalOf(x[1])

Arith(op, operands) == CHOOSE out \in { ArithOf(op, x) : x \in {operands} } : TRUE

\* The float of a sign and a decimal form, and of a sign and an f64 that
\* is an error when it is infinity.
FloatOfDecimal(positive, dec) == Ok(JFloat(~positive, dec.m, dec.e))

FloatOf(positive, f) ==
  IF f.inf THEN Err("number out of range")
  ELSE FloatOfDecimal(positive, ToDecimal(f))

\* f64_from_parts(positive, significand, exponent): significand as f64
\* times or by powers of ten, each step rounded, with the sign read. The
\* float is kept as its shortest decimal form. A zero significand gives a
\* zero whatever the exponent; a significand that is not zero with an
\* exponent above 308 is an error. A significand of up to 15 digits scaled
\* by at most 10^22 takes one step on exact operands, so the float is the
\* nearest to significand * 10^exponent and its shortest form is that
\* number.
f64_from_parts(positive, significand, exponent) ==
  IF significand = 0 THEN Ok(JFloat(~positive, << 48 >>, 0))
  ELSE IF exponent > 308 THEN Err("number out of range")
  ELSE IF exponent \in (0 - 22)..22 /\ Len(NatToChars(significand)) <= 15 THEN
    FloatOfDecimal(positive, ShortestDecimal(significand, exponent))
  ELSE FloatOf(positive, F64Scale(AsF64(significand), exponent))

\* A float read up to position p, as a parse step.
FloatStep(f, p) == IF f.ok THEN POk(f.v, p) ELSE PErr

\* parse_exponent: p is at the e; an optional sign and at least one digit
\* follow. An exponent beyond i32 (parse_exponent_overflow) is an error
\* when it is positive and the significand is not zero, and a zero
\* otherwise.
parse_exponent(bytes, p, positive, significand, starting_exp) ==
  LET sign == peek_or_null(bytes, p + 1)
      positive_exp == sign # Ord("-")
      q == IF sign \in {Ord("+"), Ord("-")} THEN p + 2 ELSE p + 1
  IN  IF ~IsDigit(peek_or_null(bytes, q)) THEN PErr
      ELSE With(ParseExponentDigits(bytes, q, 0),
                LAMBDA exp :
                  IF exp.over THEN
                    (IF significand # 0 /\ positive_exp THEN PErr
                     ELSE POk(JFloat(~positive, << 48 >>, 0), SkipDigits(bytes, exp.pos)))
                  ELSE FloatStep(f64_from_parts(positive, significand,
                                   IF positive_exp
                                     THEN saturating_add(starting_exp, exp.v)
                                     ELSE saturating_sub(starting_exp, exp.v)),
                                 exp.pos))

\* parse_decimal: p is at the point; at least one digit follows, then
\* possibly an exponent. Digits that would take the significand beyond
\* u64 are dropped (parse_decimal_overflow).
parse_decimal(bytes, p, positive, significand, exponent_before_decimal_point) ==
  With(ParseDigits(bytes, p + 1, significand),
       LAMBDA frac :
         LET exponent == exponent_before_decimal_point + ((p + 1) - frac.pos)
             q == SkipDigits(bytes, frac.pos)
         IN  IF ~frac.over /\ frac.pos = p + 1 THEN PErr
             ELSE IF peek_or_null(bytes, q) \in {Ord("e"), Ord("E")}
               THEN parse_exponent(bytes, q, positive, frac.v, exponent)
             ELSE FloatStep(f64_from_parts(positive, frac.v, exponent), q))

\* parse_number: p is after the digits of an integer within u64. A point or
\* an exponent makes it a float; without them it is the integer, except
\* that -0 and a negative number below i64::MIN are floats.
parse_number(bytes, p, positive, significand) ==
  IF peek_or_null(bytes, p) = Ord(".") THEN
    parse_decimal(bytes, p, positive, significand, 0)
  ELSE IF peek_or_null(bytes, p) \in {Ord("e"), Ord("E")} THEN
    parse_exponent(bytes, p, positive, significand, 0)
  ELSE IF positive THEN POk(JNum(significand), p)
  ELSE IF significand = 0 \/ ~FitsI64(0 - significand) THEN
    FloatStep(FloatOf(FALSE, AsF64(significand)), p)
  ELSE POk(JNum(0 - significand), p)

\* parse_long_integer: p is at the first digit that would take the
\* significand beyond u64; this digit and those after it are dropped and
\* counted into the exponent, and the number is a float.
parse_long_integer(bytes, p, positive, significand) ==
  LET q == SkipDigits(bytes, p)
  IN  IF peek_or_null(bytes, q) = Ord(".") THEN
        parse_decimal(bytes, q, positive, significand, q - p)
      ELSE IF peek_or_null(bytes, q) \in {Ord("e"), Ord("E")} THEN
        parse_exponent(bytes, q, positive, significand, q - p)
      ELSE FloatStep(f64_from_parts(positive, significand, q - p), q)

\* A number (parse_integer): an optional minus sign, then 0 or digits not
\* starting with 0.
ParseNumber(bytes, p) ==
  LET positive == peek_or_null(bytes, p) # Ord("-")
      q == IF positive THEN p ELSE p + 1
  IN  IF ~IsDigit(peek_or_null(bytes, q)) THEN PErr
      ELSE IF bytes[q] = 48 /\ IsDigit(peek_or_null(bytes, q + 1)) THEN PErr
      ELSE With(ParseDigits(bytes, q, 0),
                LAMBDA significand :
                  IF significand.over
                    THEN parse_long_integer(bytes, significand.pos, positive,
                                            significand.v)
                    ELSE parse_number(bytes, significand.pos, positive,
                                      significand.v))

\* The value of a hexadecimal digit, 16 for any other byte.
decode_hex_val(b) ==
  IF b \in 48..57 THEN b - 48
  ELSE IF b \in 65..70 THEN b - 55
  ELSE IF b \in 97..102 THEN b - 87
  ELSE 16

\* decode_hex_escape: the number written by the four hexadecimal digits at
\* position p.
decode_hex_escape(bytes, p) ==
  LET d == [i \in 0..3 |-> decode_hex_val(peek_or_null(bytes, p + i))]
  IN  IF p + 3 > Len(bytes) \/ \E i \in 0..3 : d[i] = 16 THEN PErr
      ELSE POk(d[0] * 4096 + d[1] * 256 + d[2] * 16 + d[3], p + 4)

\* parse_unicode_escape: p is after \u. A character of the basic plane is
\* written by one escape; a leading surrogate must be followed by the escape
\* of a trailing one, and the two make one character; a trailing surrogate
\* alone is an error.
parse_unicode_escape(bytes, p) ==
  With(decode_hex_escape(bytes, p),
       LAMBDA n1 :
         IF ~n1.ok THEN PErr
         ELSE IF n1.v \in 56320..57343 THEN PErr
         ELSE IF n1.v \in 55296..56319 THEN
           (IF \/ peek_or_null(bytes, n1.pos) # Ord("\\")
               \/ peek_or_null(bytes, n1.pos + 1) # Ord("u")
              THEN PErr
              ELSE With(decode_hex_escape(bytes, n1.pos + 2),
                        LAMBDA n2 :
                          IF ~n2.ok \/ n2.v \notin 56320..57343 THEN PErr
                          ELSE POk((n1.v - 55296) * 1024 + (n2.v - 56320) + 65536,
                                   n2.pos)))
         ELSE POk(n1.v, n1.pos))

\* parse_escape: p is after the backslash.
parse_escape(bytes, p) ==
  LET ch == peek_or_null(bytes, p)
  IN  IF p > Len(bytes) THEN PErr
      ELSE IF ch \in {Ord("\""), Ord("\\"), Ord("/")} THEN POk(ch, p + 1)
      ELSE IF ch = Ord("b") THEN POk(8, p + 1)
      ELSE IF ch = Ord("f") THEN POk(12, p + 1)
      ELSE IF ch = Ord("n") THEN POk(10, p + 1)
      ELSE IF ch = Ord("r") THEN POk(13, p + 1)
      ELSE IF ch = Ord("t") THEN POk(9, p + 1)
      ELSE IF ch = Ord("u") THEN parse_unicode_escape(bytes, p + 1)
      ELSE PErr

\* The characters of a string from position p (after the opening quote) to
\* its closing quote (parse_str): the bytes up to the next quote, backslash
\* or control character are taken as they are, an escape is undone, a
\* control character is an error, and at the quote the bytes read must be
\* valid UTF-8; scratch holds the bytes read so far.
RECURSIVE ParseChars(_, _, _)
ParseChars(bytes, p, scratch) ==
  With(FirstAt(bytes, p, LAMBDA b : b = Ord("\"") \/ b = Ord("\\") \/ b < 32),
       LAMBDA q :
         IF q > Len(bytes) THEN PErr
         ELSE IF bytes[q] = Ord("\"") THEN
           With(from_utf8(scratch \o SubSeq(bytes, p, q - 1)),
                LAMBDA str : IF str.ok THEN POk(str.v, q + 1) ELSE PErr)
         ELSE IF bytes[q] = Ord("\\") THEN
           With(parse_escape(bytes, q + 1),
                LAMBDA esc :
                  IF esc.ok
                    THEN ParseChars(bytes, esc.pos,
                                    scratch \o SubSeq(bytes, p, q - 1)
                                      \o encode_utf8(esc.v))
                    ELSE PErr)
         ELSE PErr)

\* The deepest nesting of arrays and objects the parser reads is one less
\* (remaining_depth).
RecursionLimit == 128

\* A value from position p on (deserialize_any), after whitespace; depth is
\* the nesting still allowed.
RECURSIVE ParseValue(_, _, _)
RECURSIVE ParseItems(_, _, _, _, _)
RECURSIVE ParseMembers(_, _, _, _, _)
ParseValue(bytes, p, depth) ==
  LET q == parse_whitespace(bytes, p)
      r == ParseChars(bytes, q + 1, << >>)
  IN  IF q > Len(bytes) THEN PErr
      ELSE IF HasWord(bytes, q, << "n", "u", "l", "l" >>) THEN POk(JNull, q + 4)
      ELSE IF HasWord(bytes, q, << "t", "r", "u", "e" >>)
        THEN POk(JBool(TRUE), q + 4)
      ELSE IF HasWord(bytes, q, << "f", "a", "l", "s", "e" >>)
        THEN POk(JBool(FALSE), q + 5)
      ELSE IF bytes[q] = Ord("\"") THEN
        (IF r.ok THEN POk(JStr(r.v), r.pos) ELSE PErr)
      ELSE IF bytes[q] = Ord("[") THEN
        (IF depth = 1 THEN PErr
         ELSE ParseItems(bytes, q + 1, << >>, depth - 1, TRUE))
      ELSE IF bytes[q] = Ord("{") THEN
        (IF depth = 1 THEN PErr
         ELSE ParseMembers(bytes, q + 1, << >>, depth - 1, TRUE))
      ELSE ParseNumber(bytes, q)

\* The position at which the next item or member starts when q is the
\* position after the last one and the whitespace behind it: q itself for
\* the first, the position after a comma and whitespace for a later one, 0
\* when no comma is there.
NextStart(bytes, q, first) ==
  IF first THEN q
  ELSE IF peek_or_null(bytes, q) = Ord(",") THEN parse_whitespace(bytes, q + 1)
  ELSE 0

\* The items of an array from position p (SeqAccess): the closing bracket,
\* or an item, after a comma unless it is the first; acc holds those read
\* so far.
ParseItems(bytes, p, acc, depth, first) ==
  LET q == parse_whitespace(bytes, p)
      start == NextStart(bytes, q, first)
  IN  IF peek_or_null(bytes, q) = Ord("]") THEN POk(JArr(acc), q + 1)
      ELSE IF start = 0 \/ peek_or_null(bytes, start) = Ord("]") THEN PErr
      ELSE With(ParseValue(bytes, start, depth),
                LAMBDA r :
                  IF r.ok
                    THEN ParseItems(bytes, r.pos, Append(acc, r.v), depth, FALSE)
                    ELSE PErr)

\* A key from position start, which must hold a quote, and the colon after
\* it: the key and the position after the colon.
ParseKey(bytes, start) ==
  LET key == ParseChars(bytes, start + 1, << >>)
      colon == parse_whitespace(bytes, key.pos)
  IN  IF start = 0 \/ peek_or_null(bytes, start) # Ord("\"") THEN PErr
      ELSE IF ~key.ok THEN PErr
      ELSE IF peek_or_null(bytes, colon) # Ord(":") THEN PErr
      ELSE POk(key.v, colon + 1)

\* The members of an object from position p (MapAccess): the closing brace,
\* or a key that is a string, a colon and a value, after a comma unless it
\* is the first; acc holds those read so far.
ParseMembers(bytes, p, acc, depth, first) ==
  LET q == parse_whitespace(bytes, p)
      key == ParseKey(bytes, NextStart(bytes, q, first))
  IN  IF peek_or_null(bytes, q) = Ord("}") THEN POk(JObj(acc), q + 1)
      ELSE IF ~key.ok THEN PErr
      ELSE With(ParseValue(bytes, key.pos, depth),
                LAMBDA r :
                  IF r.ok
                    THEN ParseMembers(bytes, r.pos, MapInsert(acc, key.v, r.v),
                                      depth, FALSE)
                    ELSE PErr)

\* value == value of two serde_json Values: a float equals a float of the
\* same value (0.0 equals -0.0) and no integer.
RECURSIVE ValueEq(_, _)
ValueEq(a, b) ==
  /\ a.t = b.t
  /\ IF a.t = "arr" THEN
       /\ Len(a.v) = Len(b.v)
       /\ \A i \in DOMAIN a.v : ValueEq(a.v[i], b.v[i])
     ELSE IF a.t = "obj" THEN
       /\ Len(a.v) = Len(b.v)
       /\ \A i \in DOMAIN a.v : a.v[i][1] = b.v[i][1] /\ ValueEq(a.v[i][2], b.v[i][2])
     ELSE IF a.t = "float" THEN
       /\ a.v.m = b.v.m
       /\ a.v.e = b.v.e
       /\ (a.v.neg = b.v.neg \/ a.v.m = << 48 >>)
     ELSE a.v = b.v

\* serde_json::from_slice::<Value>(bytes): one value, with nothing but
\* whitespace after it.
from_slice(bytes) ==
  With(ParseValue(bytes, 1, RecursionLimit),
       LAMBDA r : IF r.ok /\ parse_whitespace(bytes, r.pos) = Len(bytes) + 1
                    THEN Ok(r.v)
                    ELSE Err("Deserialization"))

\* Url::parse(text) followed by Url::to_string(): the normalised text of a
\* valid URL (an empty path becomes "/"), an error for any other text.
into_url(text) ==
  IF text \in {"http://example.com", "http://example.com/"}
    THEN Ok("http://example.com/")
  ELSE IF text = "https://example.com/order.json" THEN Ok(text)
  ELSE Err("relative URL without a base")

\* A time given to a builder: a DateTime, or a text to be read as one.
DateTime(instant) == [kind |-> "DateTime", v |-> instant]

TimeText(text) == [kind |-> "text", v |-> text]

\* TryIntoTime::into_time: a DateTime as it is; a text in RFC 3339 form as
\* the instant it names, in UTC; an error for any other text.
into_time(time) ==
  IF time.kind = "DateTime" THEN Ok(time.v)
  ELSE IF time.v \in {"2024-01-01T00:00:00Z", "2024-01-01T01:00:00+01:00"}
    THEN Ok("2024-01-01T00:00:00Z")
  ELSE Err("ParseTimeError")

\* CloudEventBuilderV10::default(): the builder of the default CloudEvent,
\* which has a generated id (a UUID; one text stands for all), the type
\* "type", the name of the host as source and the time of the call (one
\* instant stands for all), and no other attribute, no extension, no data
\* and no error.
CloudEventBuilder_default ==
  [id |-> Some("6f1c0b0e-generated"), source |-> Some("http://localhost/"),
   ty |-> Some("type"), subject |-> None, time |-> Some("2024-06-01T12:00:00Z"),
   datacontenttype |-> None, dataschema |-> None, extensions |-> {},
   data |-> [variant |-> "None", v |-> 0], error |-> None]

CloudEventBuilder_id(inner, id) == [inner EXCEPT !.id = Some(id)]

\* CloudEventBuilderV10::source(source): an empty source is recorded as an
\* error.
CloudEventBuilder_source(inner, source) ==
  IF source = ""
    THEN [inner EXCEPT !.error = Some("InvalidUriRefError")]
    ELSE [inner EXCEPT !.source = Some(source)]

CloudEventBuilder_subject(inner, subject) == [inner EXCEPT !.subject = Some(subject)]

CloudEventBuilder_ty(inner, ty) == [inner EXCEPT !.ty = Some(ty)]

\* CloudEventBuilderV10::time(time): a time that cannot be read is recorded
\* as an error.
CloudEventBuilder_time(inner, time) ==
  IF into_time(time).ok
    THEN [inner EXCEPT !.time = Some(into_time(time).v)]
    ELSE [inner EXCEPT !.error = Some("ParseTimeError")]

\* CloudEventBuilderV10::extension(name, value): extensions is a map, kept
\* as the set of its entries.
CloudEventBuilder_extension(inner, name, value) ==
  [inner EXCEPT !.extensions =
     { x \in @ : x[1] # name } \cup { << name, value >> }]

\* CloudEventBuilderV10::data(content_type, data).
CloudEventBuilder_data(inner, content_type, data) ==
  [inner EXCEPT !.datacontenttype = Some(content_type), !.data = data]

\* CloudEventBuilderV10::data_with_schema(content_type, schema_url, data);
\* the builder hands it the text of a URL it has parsed already.
CloudEventBuilder_data_with_schema(inner, content_type, url, data) ==
  [(IF into_url(url).ok
      THEN [inner EXCEPT !.dataschema = Some(into_url(url).v)]
      ELSE [inner EXCEPT !.error = Some("ParseUrlError")])
     EXCEPT !.datacontenttype = Some(content_type), !.data = data]

\* CloudEventBuilderV10::build(): a recorded error is returned; id, source
\* and type are required.
CloudEventBuilder_build(inner) ==
  IF ~inner.error.some /\ inner.id.some /\ inner.source.some /\ inner.ty.some
    THEN Ok([id |-> inner.id.v, source |-> inner.source.v, ty |-> inner.ty.v,
             subject |-> inner.subject, time |-> inner.time,
             datacontenttype |-> inner.datacontenttype,
             dataschema |-> inner.dataschema, extensions |-> inner.extensions,
             data |-> inner.data])
    ELSE Err("Unknown")

\* EventBuilder::new().
EventBuilder_new ==
  [inner |-> CloudEventBuilder_default, schema_url |-> None, error |-> None]

EventBuilder_id(b, id) == [b EXCEPT !.inner = CloudEventBuilder_id(@, id)]

EventBuilder_maybe_id(b, id) == IF id.some THEN EventBuilder_id(b, id.v) ELSE b

EventBuilder_source(b, source) ==
  [b EXCEPT !.inner = CloudEventBuilder_source(@, source)]

EventBuilder_maybe_source(b, source) ==
  IF source.some THEN EventBuilder_source(b, source.v) ELSE b

EventBuilder_subject(b, subject) ==
  [b EXCEPT !.inner = CloudEventBuilder_subject(@, subject)]

EventBuilder_maybe_subject(b, subject) ==
  IF subject.some THEN EventBuilder_subject(b, subject.v) ELSE b

EventBuilder_time(b, time) == [b EXCEPT !.inner = CloudEventBuilder_time(@, time)]

EventBuilder_maybe_time(b, time) ==
  IF time.some THEN EventBuilder_time(b, time.v) ELSE b

EventBuilder_extension(b, name, value) ==
  [b EXCEPT !.inner = CloudEventBuilder_extension(@, name, value)]

EventBuilder_maybe_extension(b, name, value) ==
  IF value.some THEN EventBuilder_extension(b, name, value.v) ELSE b

\* EventBuilder::extensions(extensions): every entry of the map is set; the
\* map has one entry for a name, so the order of the loop does not show.
EventBuilder_extensions(b, extensions) ==
  [b EXCEPT !.inner.extensions =
     { x \in @ : \A y \in extensions : y[1] # x[1] } \cup extensions]

\* EventBuilder::maybe_extensions(extensions): the entries of the map that
\* have a value are set.
EventBuilder_maybe_extensions(b, extensions) ==
  IF extensions.some
    THEN EventBuilder_extensions(b, { << x[1], x[2].v >> : x \in { y \in extensions.v : y[2].some } })
    ELSE b

EventBuilder_type_(b, type_) == [b EXCEPT !.inner = CloudEventBuilder_ty(@, type_)]

EventBuilder_maybe_type(b, type_) ==
  IF type_.some THEN EventBuilder_type_(b, type_.v) ELSE b

\* A schema_url that forgets the recorded error when a valid URL follows.
EventBuilder_schema_url_clearing(b, text) ==
  IF into_url(text).ok
    THEN [b EXCEPT !.schema_url = Some(into_url(text).v), !.error = None]
    ELSE [b EXCEPT !.error = Some("Unknown")]

\* EventBuilder::schema_url(schema_url): a valid URL is kept as its text, an
\* invalid one records the error that build and build_raw return.
EventBuilder_schema_url(b, text) ==
  IF into_url(text).ok
    THEN [b EXCEPT !.schema_url = Some(into_url(text).v)]
    ELSE [b EXCEPT !.error = Some("Unknown")]

\* EventBuilder::maybe_schema_url(schema_url).
EventBuilder_maybe_schema_url(b, opt) ==
  IF opt.some THEN EventBuilder_schema_url(b, opt.v) ELSE b

\* The data and type-independent tail of build and build_raw: the data goes
\* in with the schema URL if there is one.
EventBuilder_with_data(b, data) ==
  IF b.schema_url.some
    THEN CloudEventBuilder_data_with_schema(b.inner, "application/json", b.schema_url.v, data)
    ELSE CloudEventBuilder_data(b.inner, "application/json", data)

\* EventBuilder::build(data): the payload is encoded first, then the
\* recorded error is returned, then the event is built with the type of the
\* payload.
EventBuilder_build(b, payload) ==
  LET value == to_value(payload.value)
  IN  IF ~value.ok THEN Err("Serialization")
      ELSE IF b.error.some THEN Err(b.error.v)
      ELSE CloudEventBuilder_build(
             CloudEventBuilder_ty(
               EventBuilder_with_data(b, [variant |-> "Json", v |-> value.v]),
               payload.event_type))

\* EventBuilder::build_raw(data).
EventBuilder_build_raw(b, bytes) ==
  IF b.error.some THEN Err(b.error.v)
  ELSE CloudEventBuilder_build(
         EventBuilder_with_data(b, [variant |-> "Binary", v |-> bytes]))

\* Event::data_as_bytes().
Event_data_as_bytes(ev) ==
  IF ev.data.variant = "None" THEN Err("MissingEventData")
  ELSE IF ev.data.variant = "Binary" THEN Ok(ev.data.v)
  ELSE IF ev.data.variant = "Json" THEN Ok(to_vec(ev.data.v))
  ELSE Ok(as_bytes(ev.data.v))

\* serde_json::to_string(value): the text of to_vec, which is valid UTF-8.
to_string(value) == from_utf8(to_vec(value)).v

\* serde_json::from_str::<Value>(text).
from_str(text) == from_slice(as_bytes(text))

\* Event::data_as_value().
Event_data_as_value(ev) ==
  IF ev.data.variant = "None" THEN Err("MissingEventData")
  ELSE IF ev.data.variant = "Json" THEN Ok(ev.data.v)
  ELSE IF ev.data.variant = "Binary" THEN from_slice(ev.data.v)
  ELSE from_str(ev.data.v)

\* serde_json::from_value::<E>(value) for a payload type E that is a unit
\* struct or a newtype of a flag, an i64 or a text: the value must be of
\* the kind the type reads, and an integer must be within i64.
from_value(value, type) ==
  IF type = "unit" /\ value.t = "null" THEN Ok([t |-> "unit", v |-> 0])
  ELSE IF type = "bool" /\ value.t = "bool" THEN Ok([t |-> "bool", v |-> value.v])
  ELSE IF type = "i64" /\ value.t = "num" /\ FitsI64(value.v)
    THEN Ok([t |-> "i64", v |-> value.v])
  ELSE IF type = "String" /\ value.t = "str" THEN Ok([t |-> "String", v |-> value.v])
  ELSE Err("invalid type")

\* Event::data_as_string(): a stored text as it is, a structured value as
\* its text, stored bytes parsed and written again, with the error of
\* either step mapped to Serialization.
Event_data_as_string(ev) ==
  IF ev.data.variant = "None" THEN Err("MissingEventData")
  ELSE IF ev.data.variant = "String" THEN Ok(ev.data.v)
  ELSE IF ev.data.variant = "Json" THEN Ok(to_string(ev.data.v))
  ELSE IF from_slice(ev.data.v).ok THEN Ok(to_string(from_slice(ev.data.v).v))
  ELSE Err("Serialization")

\* Event::data::<E>(): from_value of a structured value, from_slice of
\* stored bytes, from_str of a stored text; every error is mapped to
\* Deserialization.
Event_data(ev, type) ==
  IF ev.data.variant = "None" THEN Err("MissingEventData")
  ELSE LET value == IF ev.data.variant = "Json" THEN Ok(ev.data.v)
                    ELSE IF ev.data.variant = "Binary" THEN from_slice(ev.data.v)
                    ELSE from_str(ev.data.v)
       IN  IF value.ok /\ from_value(value.v, type).ok
             THEN from_value(value.v, type)
             ELSE Err("Deserialization")

\* Event::new(event): the wrapper of a CloudEvent built elsewhere.
Event_new(cloud_event) == cloud_event

\* Event::empty(): the event of EmptyEventData with id and source "_empty".
Event_empty ==
  EventBuilder_build(
    EventBuilder_source(EventBuilder_id(EventBuilder_new, "_empty"), "_empty"),
    [event_type |-> "_", value |-> [t |-> "unit", v |-> 0]]).v

\* The longest builder chain before build or build_raw.
MaxChain == 3

\* Typed values of the payload types.
TUnit == [t |-> "unit", v |-> 0]

TBool(b) == [t |-> "bool", v |-> b]

TInt(n) == [t |-> "i64", v |-> n]

\* A finite f64, by its sign and its shortest decimal form.
TF64(neg, m, e) ==
  [t |-> "f64", v |-> [finite |-> TRUE, neg |-> neg, m |-> m, e |-> e]]

TString(s) == [t |-> "String", v |-> s]

TOption(xs) == [t |-> "Option", v |-> xs]

TVec(xs) == [t |-> "Vec", v |-> xs]

TStruct(fields) == [t |-> "struct", v |-> fields]

\* A map keyed by pairs, which has no structured encoding.
TPairMap == [t |-> "HashMap<(u32, u32), String>", v |-> 0]

\* The payloads of the events built: EmptyEventData, newtypes of a number, a
\* flag and a text with a quote, a backslash, a line feed, a control
\* character and a character beyond ASCII, a struct with a list and an
\* absent field, two payloads that cannot be encoded, and a newtype of the
\* f64 1.2e-30.
Payloads ==
  << [event_type |-> "_", value |-> TUnit],
    [event_type |-> "counter.set", value |-> TInt(0 - 12)],
    [event_type |-> "flag.set", value |-> TBool(TRUE)],
    [event_type |-> "note.added",
     value |-> TString(Text(<< "a", "\"", "\\", "/" >>) \o << 10, 1, 233 >>)],
    [event_type |-> "order.created",
     value |-> TStruct(<< << Text(<< "i", "d" >>), TInt(105) >>,
                          << Text(<< "t", "a", "s" >>),
                             TVec(<< TString(<< >>), TOption(<< >>),
                                     TBool(FALSE), TOption(<< TInt(0) >>) >>) >>,
                          << Text(<< "a", "t" >>), TStruct(<< >>) >>,
                          << Text(<< "a" >>), TString(Text(<< ":", "," >>)) >> >>)],
    [event_type |-> "grid.updated", value |-> TPairMap],
    [event_type |-> "grids.updated", value |-> TVec(<< TInt(1), TPairMap >>)],
    [event_type |-> "reading.taken",
     value |-> TF64(FALSE, Text(<< "1", "2" >>), 0 - 31)] >>

\* The raw data of build_raw: an object; a string with an escaped quote;
\* a string with the escapes of a line feed and of two characters by their
\* numbers; an array with whitespace holding -0, a number with an exponent
\* and one with a fraction; a cut array; a string holding a line feed as it
\* is; a string holding a byte that is no UTF-8; and none.
RawData ==
  { Text(<< "{", "\"", "i", "d", "\"", ":", "1", "}" >>),
    Text(<< "\"", "a", "\\", "\"", "\"" >>),
    Text(<< "\"", "\\", "n", "\\", "u", "0", "0", "6", "1",
            "\\", "u", "D", "8", "3", "d", "\\", "u", "d", "e", "0", "0", "\"" >>),
    Text(<< "[", " ", "-", "0", ",", "1", "e", "5", " ", ",", " ",
            "2", ".", "5", "0", "]" >>) \o << 10 >>,
    Text(<< "[", "1", "," >>),
    << 34, 10, 34 >>,
    << 34, 255, 34 >>,
    << >> }

\* The data of the CloudEvents wrapped by Event::new: none, a text that is
\* a structured number, a text that is a structured string with a
\* character beyond ASCII, and a text that is no structured value.
StoredData ==
  << [variant |-> "None", v |-> 0],
     [variant |-> "String", v |-> Text(<< "-", "1", "2" >>)],
     [variant |-> "String", v |-> << 34, 233, 34 >>],
     [variant |-> "String", v |-> Text(<< "a", "," >>)] >>

\* The payload types asked of Event::data.
PayloadTypes == {"unit", "bool", "i64", "String"}

\* The texts given as schema URL.
UrlTexts == {"http://example.com", "https://example.com/order.json",
             "order.json", ""}

\* The times given to time and maybe_time: a DateTime, a text that names
\* the same instant in another zone, and a text that names no time.
Times == {DateTime("2024-01-01T00:00:00Z"), TimeText("2024-01-01T01:00:00+01:00"),
          TimeText("yesterday")}

\* The maps given to extensions.
ExtensionMaps == {{}, {<< "traceid", "t-2" >>, << "tenant", "acme" >>}}

\* The maps given to maybe_extensions, whose entries may have no value.
MaybeExtensionMaps == {{<< "traceid", Some("t-3") >>, << "tenant", None >>}}

\* The builder chain so far: the builder, the number of calls made on it,
\* and whether one of them was given an invalid schema URL.
NewChain == [b |-> EventBuilder_new, calls |-> 0, invalid_url |-> FALSE]

\* No event was built yet; no view was asked for yet.
NotBuilt == [op |-> "", data |-> 0, result |-> Err("")]

NoView == [op |-> "", result |-> Err("")]

EventInit ==
  /\ config = InMemoryBrokerConfig_default
  /\ inner_alive = TRUE
  /\ groups = BrokerInner_new
  /\ values_order = EmptyMap
  /\ consumers = {}
  /\ endpoints = << >>
  /\ envelopes = << >>
  /\ pub_log = [c \in Channels |-> << >>]
  /\ ret = "Ok"
  /\ tasks = << >>
  /\ dispatch_log = << >>
  /\ kafka = "none"
  /\ event_builder = NewChain
  /\ built = NotBuilt
  /\ view = NoView

EventFrame == UNCHANGED << broker_vars, conc_vars, kafka_vars >>

\* One more call on the builder.
Chained(b, invalid) ==
  [b |-> b, calls |-> event_builder.calls + 1,
   invalid_url |-> event_builder.invalid_url \/ invalid]

ChainOpen == built.op = "" /\ event_builder.calls < MaxChain

BuilderId(text) ==
  /\ ChainOpen
  /\ event_builder' = Chained(EventBuilder_id(event_builder.b, text), FALSE)
  /\ UNCHANGED << built, view >>
  /\ EventFrame

BuilderSource(text) ==
  /\ ChainOpen
  /\ event_builder' = Chained(EventBuilder_source(event_builder.b, text), FALSE)
  /\ UNCHANGED << built, view >>
  /\ EventFrame

BuilderMaybeId(opt) ==
  /\ ChainOpen
  /\ event_builder' = Chained(EventBuilder_maybe_id(event_builder.b, opt), FALSE)
  /\ UNCHANGED << built, view >>
  /\ EventFrame

BuilderMaybeSource(opt) ==
  /\ ChainOpen
  /\ event_builder' = Chained(EventBuilder_maybe_source(event_builder.b, opt), FALSE)
  /\ UNCHANGED << built, view >>
  /\ EventFrame

BuilderMaybeSubject(opt) ==
  /\ ChainOpen
  /\ event_builder' = Chained(EventBuilder_maybe_subject(event_builder.b, opt), FALSE)
  /\ UNCHANGED << built, view >>
  /\ EventFrame

BuilderTime(time) ==
  /\ ChainOpen
  /\ event_builder' = Chained(EventBuilder_time(event_builder.b, time), FALSE)
  /\ UNCHANGED << built, view >>
  /\ EventFrame

BuilderMaybeTime(opt) ==
  /\ ChainOpen
  /\ event_builder' = Chained(EventBuilder_maybe_time(event_builder.b, opt), FALSE)
  /\ UNCHANGED << built, view >>
  /\ EventFrame

BuilderExtension(name, value) ==
  /\ ChainOpen
  /\ event_builder' = Chained(EventBuilder_extension(event_builder.b, name, value), FALSE)
  /\ UNCHANGED << built, view >>
  /\ EventFrame

BuilderMaybeExtension(name, opt) ==
  /\ ChainOpen
  /\ event_builder' = Chained(EventBuilder_maybe_extension(event_builder.b, name, opt), FALSE)
  /\ UNCHANGED << built, view >>
  /\ EventFrame

BuilderExtensions(extensions) ==
  /\ ChainOpen
  /\ event_builder' = Chained(EventBuilder_extensions(event_builder.b, extensions), FALSE)
  /\ UNCHANGED << built, view >>
  /\ EventFrame

BuilderMaybeExtensions(opt) ==
  /\ ChainOpen
  /\ event_builder' = Chained(EventBuilder_maybe_extensions(event_builder.b, opt), FALSE)
  /\ UNCHANGED << built, view >>
  /\ EventFrame

BuilderMaybeType(opt) ==
  /\ ChainOpen
  /\ event_builder' = Chained(EventBuilder_maybe_type(event_builder.b, opt), FALSE)
  /\ UNCHANGED << built, view >>
  /\ EventFrame

BuilderSubject(text) ==
  /\ ChainOpen
  /\ event_builder' = Chained(EventBuilder_subject(event_builder.b, text), FALSE)
  /\ UNCHANGED << built, view >>
  /\ EventFrame

BuilderType(text) ==
  /\ ChainOpen
  /\ event_builder' = Chained(EventBuilder_type_(event_builder.b, text), FALSE)
  /\ UNCHANGED << built, view >>
  /\ EventFrame

BuilderSchemaUrl(text) ==
  /\ ChainOpen
  /\ event_builder' = Chained(EventBuilder_schema_url(event_builder.b, text),
                              text \notin {"http://example.com",
                                           "https://example.com/order.json"})
  /\ UNCHANGED << built, view >>
  /\ EventFrame

BuilderMaybeSchemaUrl(opt) ==
  /\ ChainOpen
  /\ event_builder' = Chained(EventBuilder_maybe_schema_url(event_builder.b, opt),
                              opt.some /\ opt.v \notin {"http://example.com",
                                                        "https://example.com/order.json"})
  /\ UNCHANGED << built, view >>
  /\ EventFrame

Build(payload) ==
  /\ built.op = ""
  /\ built' = [op |-> "build", data |-> payload,
               result |-> EventBuilder_build(event_builder.b, payload)]
  /\ UNCHANGED << event_builder, view >>
  /\ EventFrame

BuildRaw(bytes) ==
  /\ built.op = ""
  /\ built' = [op |-> "build_raw", data |-> bytes,
               result |-> EventBuilder_build_raw(event_builder.b, bytes)]
  /\ UNCHANGED << event_builder, view >>
  /\ EventFrame

DataAsBytes ==
  /\ built.result.ok
  /\ view' = [op |-> "data_as_bytes", result |-> Event_data_as_bytes(built.result.v)]
  /\ UNCHANGED << event_builder, built >>
  /\ EventFrame

DataAsValue ==
  /\ built.result.ok
  /\ view' = [op |-> "data_as_value", result |-> Event_data_as_value(built.result.v)]
  /\ UNCHANGED << event_builder, built >>
  /\ EventFrame

\* Event::new on a CloudEvent with id, source and type, made with the
\* CloudEvents builder and carrying data.
EventNew(data) ==
  /\ built.op = ""
  /\ event_builder = NewChain
  /\ built' = [op |-> "new", data |-> data,
               result |-> Ok(Event_new(CloudEventBuilder_build(
                 [CloudEventBuilder_default EXCEPT
                    !.id = Some("evt-1"), !.source = Some("svc"),
                    !.ty = Some("raw.type"), !.data = data]).v))]
  /\ UNCHANGED << event_builder, view >>
  /\ EventFrame

\* Event::empty().
EventEmpty ==
  /\ built.op = ""
  /\ event_builder = NewChain
  /\ built' = [op |-> "empty", data |-> Payloads[1], result |-> Ok(Event_empty)]
  /\ UNCHANGED << event_builder, view >>
  /\ EventFrame

DataAsString ==
  /\ built.result.ok
  /\ view' = [op |-> "data_as_string", result |-> Event_data_as_string(built.result.v)]
  /\ UNCHANGED << event_builder, built >>
  /\ EventFrame

Data(type) ==
  /\ built.result.ok
  /\ view' = [op |-> "data", result |-> Event_data(built.result.v, type)]
  /\ UNCHANGED << event_builder, built >>
  /\ EventFrame

EventNext ==
  \/ \E text \in {"evt-1"} : BuilderId(text)
  \/ \E opt \in {None, Some("evt-3")} : BuilderMaybeId(opt)
  \/ \E text \in {"svc", ""} : BuilderSource(text)
  \/ \E opt \in {None, Some("svc-2")} : BuilderMaybeSource(opt)
  \/ \E text \in {"o-1"} : BuilderSubject(text)
  \/ \E opt \in {None, Some("o-2")} : BuilderMaybeSubject(opt)
  \/ \E time \in Times : BuilderTime(time)
  \/ BuilderMaybeTime(None)
  \/ \E time \in {DateTime("2024-01-01T00:00:00Z")} : BuilderMaybeTime(Some(time))
  \/ \E value \in {"t-1"} : BuilderExtension("traceid", value)
  \/ \E opt \in {None, Some("t-4")} : BuilderMaybeExtension("traceid", opt)
  \/ \E extensions \in ExtensionMaps : BuilderExtensions(extensions)
  \/ BuilderMaybeExtensions(None)
  \/ \E extensions \in MaybeExtensionMaps : BuilderMaybeExtensions(Some(extensions))
  \/ \E text \in {"raw.type"} : BuilderType(text)
  \/ \E opt \in {None, Some("raw.type-2")} : BuilderMaybeType(opt)
  \/ \E text \in UrlTexts : BuilderSchemaUrl(text)
  \/ \E opt \in {None, Some("order.json"), Some("https://example.com/order.json")} :
       BuilderMaybeSchemaUrl(opt)
  \/ \E p \in DOMAIN Payloads : Build(Payloads[p])
  \/ \E bytes \in RawData : BuildRaw(bytes)
  \/ \E d \in DOMAIN StoredData : EventNew(StoredData[d])
  \/ EventEmpty
  \/ DataAsBytes
  \/ DataAsValue
  \/ DataAsString
  \/ \E type \in PayloadTypes : Data(type)

EventSpec == EventInit /\ [][EventNext]_vars

\* ----------------------------------------------------- Kafka consumer stream
\*
\* The stream of KafkaConsumer::stream_events. An inbound item of the
\* rdkafka message stream is a transport error or a message with an
\* optional key, a timestamp, headers and an optional payload; headers
\* outside the ce- attributes are not modelled.

\* The most items a stream is asked for.
MaxMessages == 3

\* What Uuid::new_v4() returns for the n-th item of the stream.
UuidTexts == << "uuid-1", "uuid-2", "uuid-3", "uuid-4", "uuid-5", "uuid-6" >>

\* The headers the consumer reads.
CeHeaders == {"ce-type", "ce-source", "ce-dataschema"}

\* The inbound items: every combination of key, ce-type, ce-source,
\* ce-dataschema (absent, valid, invalid) and payload, and a transport error.
InboundMessages ==
  { [transport_error |-> FALSE, key |-> key, timestamp |-> Some("2024-01-01T00:00:00Z"),
     headers |-> [h \in CeHeaders |->
                    IF h = "ce-type" THEN ty
                    ELSE IF h = "ce-source" THEN src ELSE schema],
     payload |-> payload] :
      key \in {None, Some("order-7")},
      ty \in {None, Some("order.created")},
      src \in {None, Some("svc")},
      schema \in {None, Some("https://example.com/order.json"), Some("order.json")},
      payload \in {[some |-> FALSE, v |-> << >>],
                   [some |-> TRUE, v |-> Text(<< "{", "\"", "i", "d", "\"", ":", "1", "}" >>)]} }
    \cup
  { [transport_error |-> TRUE, key |-> None, timestamp |-> None,
     headers |-> [h \in CeHeaders |-> None],
     payload |-> [some |-> FALSE, v |-> << >>]] }

\* try_get_header_str(msg, key).
try_get_header_str(msg, name) == msg.headers[name]

\* get_header_str(msg, key): a missing header is a Deserialization error.
get_header_str(msg, name) ==
  IF try_get_header_str(msg, name).some
    THEN Ok(try_get_header_str(msg, name).v)
    ELSE Err("Deserialization")

\* filtered_headers(msg, filter) with the filter of stream_events: the
\* headers with a value that are none of the ce- attributes the consumer
\* reads itself, as the entries of a map.
filtered_headers(msg) ==
  { << h, msg.headers[h].v >> :
      h \in { k \in DOMAIN msg.headers :
                /\ msg.headers[k].some
                /\ k \notin {"ce-type", "ce-source", "ce-id", "ce-time",
                              "ce-specversion", "ce-dataschema",
                              "ce-datacontenttype"} } }

\* The builder chain of stream_events on a message: the id is the key or a
\* fresh uuid, the time the timestamp or the current time, type and source
\* come from their headers, and the payload goes in as raw bytes.
KafkaConsumer_event(msg, uuid) ==
  LET ty == get_header_str(msg, "ce-type")
      src == get_header_str(msg, "ce-source")
      b1 == EventBuilder_id(EventBuilder_new, IF msg.key.some THEN msg.key.v ELSE uuid)
      b2 == EventBuilder_time(b1, DateTime(IF msg.timestamp.some THEN msg.timestamp.v
                                           ELSE "now"))
      b3 == EventBuilder_type_(b2, ty.v)
      b4 == EventBuilder_source(b3, src.v)
      b5 == EventBuilder_maybe_schema_url(b4, try_get_header_str(msg, "ce-dataschema"))
      b6 == EventBuilder_extensions(b5, filtered_headers(msg))
  IN  IF ~ty.ok THEN ty
      ELSE IF ~src.ok THEN src
      ELSE EventBuilder_build_raw(b6, msg.payload.v)

\* The stream the consumer hands out: nothing yielded, the generator in its
\* loop.
KafkaConsumer_stream_events == [yielded |-> << >>, state |-> "running"]

KafkaInit ==
  /\ config = InMemoryBrokerConfig_default
  /\ inner_alive = TRUE
  /\ groups = BrokerInner_new
  /\ values_order = EmptyMap
  /\ consumers = {}
  /\ endpoints = << >>
  /\ envelopes = << >>
  /\ pub_log = [c \in Channels |-> << >>]
  /\ ret = "Ok"
  /\ tasks = << >>
  /\ dispatch_log = << >>
  /\ kafka = KafkaConsumer_stream_events
  /\ event_builder = "none"
  /\ built = "none"
  /\ view = "none"

KafkaFrame == UNCHANGED << broker_vars, conc_vars, event_vars >>

\* next() on the stream while the generator is in its loop, with msg the
\* next item of the message stream: a transport error is yielded as a
\* Consumer error and the loop goes on; a message is yielded as a no-op
\* envelope of its event, or, when a `?` of the chain fails, that error is
\* yielded and the generator returns.
KafkaNext_(msg) ==
  /\ kafka.state = "running"
  /\ Len(kafka.yielded) < MaxMessages
  /\ LET event == KafkaConsumer_event(msg, UuidTexts[Len(kafka.yielded) + 1])
     IN  kafka' =
           IF msg.transport_error
             THEN [kafka EXCEPT !.yielded = Append(@, Err("Consumer"))]
           ELSE IF event.ok
             THEN [kafka EXCEPT !.yielded = Append(@, event)]
           ELSE [kafka EXCEPT !.yielded = Append(@, event), !.state = "returned"]
  /\ KafkaFrame

\* next() on the stream after the generator has returned: the stream is
\* over.
KafkaNextNone ==
  /\ kafka.state = "returned"
  /\ kafka' = [kafka EXCEPT !.state = "ended"]
  /\ KafkaFrame

KafkaNext ==
  \/ \E msg \in InboundMessages : KafkaNext_(msg)
  \/ KafkaNextNone

KafkaSpec == KafkaInit /\ [][KafkaNext]_vars

\* ------------------------------------------------- vocabulary of the claims

\* The events passed to BrokerInner::publish on channel c, in call order.
PubEvents(c) == [k \in 1..Len(pub_log[c]) |-> pub_log[c][k].event]

\* The elements of seq at the 0-based positions congruent to i modulo n,
\* from 1-based position k on, in order.
RECURSIVE PickMod(_, _, _, _)
PickMod(seq, k, i, n) ==
  IF k > Len(seq)
    THEN << >>
    ELSE (IF (k - 1) % n = i THEN << seq[k] >> ELSE << >>)
           \o PickMod(seq, k + 1, i, n)

\* The endpoints registered under channel c (under any tag).
EndpointsOf(c) == { e \in DOMAIN endpoints : endpoints[e].channel = c }

\* Every receiving endpoint of channel c is live (and so has always been).
AllLive(c) == \A e \in EndpointsOf(c) : endpoints[e].rx = "live"

\* The (channel, tag) pairs that have a group.
GroupKeys ==
  { k \in Channels \X Tags : k[1] \in DOMAIN groups /\ k[2] \in DOMAIN groups[k[1]] }

\* Round-robin, as the specification words it: the subscriber the cursor
\* selects and the cursor after one dispatch, for a group with subscribers.
RRTarget(g) == g.consumers[(g.idx % Len(g.consumers)) + 1]

RRNext(g) == (g.idx + 1) % Len(g.consumers)

\* The endpoints whose enqueue history differs between the two states of a
\* step: the deliveries of the step.
Delivered == { e \in DOMAIN endpoints : endpoints'[e].log # endpoints[e].log }

\* One publish of event to channel c reached every tag of c: each group's
\* round-robin target was enqueued the event and nothing else changed in
\* any endpoint; each group's cursor advanced by one from its own value.
MulticastEffect(c, event) ==
  /\ DOMAIN groups' = DOMAIN groups
  /\ DOMAIN groups'[c] = DOMAIN groups[c]
  /\ \A t \in DOMAIN groups[c] :
       LET g == groups[c][t]
       IN  /\ groups'[c][t] = [consumers |-> g.consumers, idx |-> RRNext(g)]
           /\ endpoints'[RRTarget(g)] =
                [endpoints[RRTarget(g)] EXCEPT !.log = Append(@, event)]
  /\ Delivered = { RRTarget(groups[c][t]) : t \in DOMAIN groups[c] }
  /\ Cardinality(Delivered) = Cardinality(DOMAIN groups[c])
  /\ \A e \in DOMAIN endpoints \ Delivered : endpoints'[e] = endpoints[e]

\* The calls of the run were sequential: each ran to its return before the
\* next one started, none was suspended while another ran.
Sequential == tasks = << >>

\* Suspended call k returns in this step.
Returns(k) == k \in InFlight /\ tasks'[k].pc = "done"

\* The group the loop of suspended call k is at (k holds the read guard).
GroupAt(k) == groups[tasks[k].channel][values_order[tasks[k].channel][tasks[k].i]]

\* The effect of one dispatch of suspended call k, in the specification's
\* words: the cursor of the group it is at advances by one and no other
\* group changes; the round-robin target, when live, is enqueued the event
\* and no other endpoint changes, and nothing is enqueued when it is not.
DispatchEffect(k) ==
  LET c == tasks[k].channel
      t == values_order[c][tasks[k].i]
      g == groups[c][t]
  IN  /\ groups' = [groups EXCEPT ![c][t] =
                      [consumers |-> g.consumers, idx |-> RRNext(g)]]
      /\ IF endpoints[RRTarget(g)].rx = "live"
           THEN endpoints' = [endpoints EXCEPT ![RRTarget(g)].log =
                                Append(@, tasks[k].event)]
           ELSE endpoints' = endpoints

\* The tags of channel c whose groups hold the endpoints of the sequence sent.
TagsReached(c, sent) ==
  { t \in DOMAIN groups[c] :
      \E j \in DOMAIN sent : sent[j] \in Range(groups[c][t].consumers) }

\* ---------------------------------------------------------------- claims

\* C1. Round-robin fairness: in a group whose N subscribers were all
\* registered before the first publish to the channel, with every receiving
\* endpoint of the channel live, after sequential publishes the subscriber
\* at registration index i has been enqueued exactly the events at the
\* publish indices congruent to i modulo N, in publish order (after any
\* number M of publishes, so also when M is a multiple of N).
C1_RoundRobinFairness ==
  \A key \in GroupKeys :
    LET c == key[1]
        g == groups[c][key[2]]
        n == Len(g.consumers)
    IN  ( /\ Sequential
          /\ AllLive(c)
          /\ \A i \in 1..n : endpoints[g.consumers[i]].reg_at = 0 )
        => \A i \in 1..n :
             endpoints[g.consumers[i]].log = PickMod(PubEvents(c), 1, i - 1, n)

\* C1 witness: subscribers A, B of one group, both registered before any
\* publish and live, and four sequential publishes E1..E4: A holds [E1, E3]
\* and B holds [E2, E4].
C1_Witness ==
  \E key \in GroupKeys :
    LET c == key[1]
        g == groups[c][key[2]]
    IN  /\ Len(g.consumers) = 2
        /\ Sequential
        /\ AllLive(c)
        /\ \A i \in 1..2 : endpoints[g.consumers[i]].reg_at = 0
        /\ PubEvents(c) = << Event(1), Event(2), Event(3), Event(4) >>
        /\ endpoints[g.consumers[1]].log = << Event(1), Event(3) >>
        /\ endpoints[g.consumers[2]].log = << Event(2), Event(4) >>

\* C2. Tag multicast: a publish_event to a channel with T tags registered
\* and every endpoint live delivers exactly once per tag, to that tag's
\* round-robin target, T deliveries in all; each tag's cursor advances by
\* one from its own previous value, whatever the other tags' cursors are.
\* When other calls run between its dispatches, each dispatch has that
\* effect on the group it is at, and the call returns Ok having enqueued to
\* one subscriber of each of the T tags.
C2_TagMulticast ==
  [][ /\ \A c \in Channels, event \in Events :
           (PublishEvent(c, event) /\ c \in DOMAIN groups /\ AllLive(c))
             => (MulticastEffect(c, event) /\ ret' = "Ok")
      /\ \A k \in InFlight :
           (ResumeDispatch(k) /\ AllLive(tasks[k].channel))
             => /\ DispatchEffect(k)
                /\ Delivered = { RRTarget(GroupAt(k)) }
                /\ Returns(k)
                     => /\ tasks'[k].result = "Ok"
                        /\ Len(tasks'[k].sent) = Cardinality(DOMAIN groups[tasks[k].channel])
                        /\ TagsReached(tasks[k].channel, tasks'[k].sent)
                             = DOMAIN groups[tasks[k].channel] ]_vars

\* C2 witness: two tags with one live subscriber each, and one publish_event:
\* each subscriber holds one copy of the event.
C2_Witness ==
  \E c \in DOMAIN groups :
    /\ Cardinality(DOMAIN groups[c]) = 2
    /\ AllLive(c)
    /\ Len(pub_log[c]) = 1
    /\ pub_log[c][1].by = "publish_event"
    /\ \A t \in DOMAIN groups[c] :
         /\ Len(groups[c][t].consumers) = 1
         /\ endpoints[groups[c][t].consumers[1]].log = << pub_log[c][1].event >>

\* C3 (as claimed). Tags of one channel are independent: on every publish,
\* each group of the channel whose own round-robin target is live is enqueued
\* its copy of the event, whatever happens to the enqueue of another tag.
C3_TagsIndependent ==
  [][ \A c \in Channels, event \in Events :
        (PublishEvent(c, event) /\ c \in DOMAIN groups)
          => \A t \in DOMAIN groups[c] :
               LET tg == RRTarget(groups[c][t])
               IN  endpoints[tg].rx = "live"
                     => endpoints'[tg].log = Append(endpoints[tg].log, event) ]_vars

\* C4. Empty no-op: a publish_event to a channel that has no consumer group
\* returns Ok, delivers nothing and leaves the registry as it was (no
\* channel entry, no group); a dispatch to a group without subscribers
\* returns Ok, delivers nothing and leaves the group, cursor included, as it
\* was.
C4_EmptyNoOp ==
  /\ [][ \A c \in Channels, event \in Events :
           (PublishEvent(c, event) /\ c \notin DOMAIN groups)
             => (ret' = "Ok" /\ groups' = groups /\ endpoints' = endpoints) ]_vars
  /\ [](\A event \in Events :
          LET d == dispatch(ConsumerGroup_new, endpoints, event)
          IN  d.result = "Ok" /\ d.eps = endpoints /\ d.group = ConsumerGroup_new)

\* C4 witness: an event was published while the registry was empty; the
\* registry is still empty and no endpoint exists.
C4_Witness ==
  /\ inner_alive
  /\ groups = EmptyMap
  /\ endpoints = << >>
  /\ \E c \in Channels : pub_log[c] # << >>
  /\ ret = "Ok"

\* The tag-independent effect on the rest of the state of a call that only
\* touches ackers.
NoPublish == UNCHANGED << groups, endpoints, pub_log >>

\* C5. Acknowledgment idempotence: an envelope starts unsettled; its settled
\* flag is set by the first ack or nack and never cleared; a call on a
\* settled envelope changes nothing; an envelope settled by ack never
\* re-publishes and no envelope re-publishes more than once.
C5_AckIdempotence ==
  [][ /\ \A id \in EnvelopeIds :
           LET e == id[1]
               k == id[2]
               a == envelopes[e][k]
               a2 == envelopes'[e][k]
           IN  /\ a.done => a2.done
               /\ (Ack(e, k) \/ Nack(e, k) \/ NackAwait(e, k)) => a2.done
               /\ ((Ack(e, k) \/ Nack(e, k)) /\ a.done)
                    => (NoPublish /\ envelopes' = envelopes)
               /\ a.by = "ack" => a2.requeued = 0
               /\ a2.requeued <= 1
               /\ Len(pub_log'[a.channel]) - Len(pub_log[a.channel]) <= 1
      /\ \A e \in DOMAIN endpoints :
           Next_(e) /\ Len(envelopes'[e]) > Len(envelopes[e])
             => ~envelopes'[e][Len(envelopes'[e])].done ]_vars

\* C5 witness: an envelope settled by nack that has re-published once.
C5_Witness ==
  \E id \in EnvelopeIds :
    LET a == envelopes[id[1]][id[2]]
    IN  /\ a.done /\ a.by = "nack" /\ a.requeued = 1
        /\ \E i \in DOMAIN pub_log[a.channel] :
             pub_log[a.channel][i] = LogEntry(a.event, "nack")

\* The group whose subscriber list holds endpoint e (registry alive).
GroupOf(e) ==
  CHOOSE key \in GroupKeys : e \in Range(groups[key[1]][key[2]].consumers)

\* Two events agree on id, source, type and payload.
SameEvent(x, y) ==
  x.id = y.id /\ x.source = y.source /\ x.type = y.type /\ x.data = y.data

\* The call Nack(e, k) is the settling call of an acker with requeue set,
\* made while the engine is alive.
FirstNackRequeue(e, k) ==
  Nack(e, k) /\ ~envelopes[e][k].done /\ envelopes[e][k].requeue /\ inner_alive

\* Some group of channel c has a round-robin target whose receiver is gone.
ClosedTargets(c) ==
  { t \in DOMAIN groups[c] : endpoints[RRTarget(groups[c][t])].rx # "live" }

\* C6. Requeue-on-nack: with requeue enabled, the engine alive and every
\* endpoint of the channel live, the first nack of a delivered envelope
\* enqueues, before it returns, an event with the id, source, type and
\* payload of the delivered one to a subscriber of the envelope's channel,
\* also when other calls run between its swap and its return.
C6_RequeueOnNack ==
  [][ /\ \A id \in EnvelopeIds :
           LET e == id[1]
               k == id[2]
               a == envelopes[e][k]
           IN  (FirstNackRequeue(e, k) /\ AllLive(a.channel))
                 => \E e2 \in EndpointsOf(a.channel) :
                      /\ Len(endpoints'[e2].log) = Len(endpoints[e2].log) + 1
                      /\ SubSeq(endpoints'[e2].log, 1, Len(endpoints[e2].log))
                           = endpoints[e2].log
                      /\ SameEvent(endpoints'[e2].log[Len(endpoints'[e2].log)],
                                   endpoints[e].log[k])
      /\ \A k \in InFlight :
           (Returns(k) /\ tasks[k].op = "nack" /\ AllLive(tasks[k].channel))
             => /\ tasks'[k].sent # << >>
                /\ \A j \in DOMAIN tasks'[k].sent :
                     LET e2 == tasks'[k].sent[j]
                     IN  /\ e2 \in EndpointsOf(tasks[k].channel)
                         /\ \E q \in DOMAIN endpoints'[e2].log :
                              SameEvent(endpoints'[e2].log[q], tasks[k].event) ]_vars

\* C6 witness: an envelope was nacked and re-published, and a subscriber of
\* its group holds the event in a delivery other than the nacked one.
C6_Witness ==
  /\ inner_alive
  /\ \E id \in EnvelopeIds :
       LET a == envelopes[id[1]][id[2]]
       IN  /\ a.by = "nack" /\ a.requeued = 1
           /\ \E e2 \in Range(groups[GroupOf(id[1])[1]][GroupOf(id[1])[2]].consumers) :
                \E j \in DOMAIN endpoints[e2].log :
                  /\ << e2, j >> # id
                  /\ SameEvent(endpoints[e2].log[j], endpoints[id[1]].log[id[2]])

\* C7. Requeue follows the flag fixed at consumer creation: the default
\* config and the default builder have requeue off; every handle, stream and
\* acker carries the broker's requeue_on_nack; with it off a nack makes no
\* publish and no delivery, and no re-publish of a nack is in progress; an
\* ack makes none in either configuration.
C7_RequeueConditioned ==
  /\ [][ \A id \in EnvelopeIds :
           /\ Ack(id[1], id[2]) => NoPublish
           /\ (Nack(id[1], id[2]) /\ ~config.requeue_on_nack) => NoPublish ]_vars
  /\ []( /\ ~InMemoryBrokerConfig_default.requeue_on_nack
         /\ ~build(InMemoryBrokerBuilder_new).requeue_on_nack
         /\ \A h \in consumers : h.requeue = config.requeue_on_nack
         /\ \A e \in DOMAIN endpoints : endpoints[e].requeue = config.requeue_on_nack
         /\ \A id \in EnvelopeIds :
              envelopes[id[1]][id[2]].requeue = config.requeue_on_nack
         /\ \A k \in DOMAIN tasks :
              tasks[k].op = "nack" => config.requeue_on_nack )

\* C7 witness: requeue is off and an envelope was settled by nack; the one
\* publish of its channel is the original publish_event.
C7_Witness ==
  /\ ~config.requeue_on_nack
  /\ \E id \in EnvelopeIds :
       LET a == envelopes[id[1]][id[2]]
       IN  /\ a.by = "nack" /\ a.requeued = 0
           /\ Len(pub_log[a.channel]) = 1
           /\ Len(endpoints[id[1]].log) = 1

\* C8. Requeue re-enters the channel fanout: with requeue enabled, the
\* engine alive and every endpoint of the channel live, the first nack of an
\* envelope re-publishes its event to the channel: every group registered
\* under the channel, the tags other than the envelope's included, gets one
\* new delivery at its own round-robin target (which in the envelope's own
\* tag is the cursor's subscriber, whoever nacked); when other calls run
\* between its dispatches, each dispatch enqueues to the target the group
\* has then, and the nack returns with every tag reached.
C8_RequeueFanout ==
  [][ /\ \A id \in EnvelopeIds :
           LET a == envelopes[id[1]][id[2]]
           IN  (FirstNackRequeue(id[1], id[2]) /\ AllLive(a.channel))
                 => MulticastEffect(a.channel, a.event)
      /\ \A k \in InFlight :
           (ResumeDispatch(k) /\ tasks[k].op = "nack" /\ AllLive(tasks[k].channel))
             => /\ Delivered = { RRTarget(GroupAt(k)) }
                /\ Returns(k)
                     => TagsReached(tasks[k].channel, tasks'[k].sent)
                          = DOMAIN groups[tasks[k].channel] ]_vars

\* C8 witness: an envelope delivered to a subscriber of one tag was nacked
\* and re-published; the other subscriber of that tag got the re-delivery,
\* and the subscriber of another tag holds the event twice.
C8_Witness ==
  /\ inner_alive
  /\ \E id \in EnvelopeIds :
       LET a == envelopes[id[1]][id[2]]
       IN  /\ a.by = "nack" /\ a.requeued = 1
           /\ endpoints[id[1]].log = << a.event >>
           /\ \E e2 \in EndpointsOf(a.channel) \ {id[1]} :
                /\ GroupOf(e2) = GroupOf(id[1])
                /\ endpoints[e2].log = << a.event >>
           /\ \E e3 \in EndpointsOf(a.channel) :
                /\ GroupOf(e3) # GroupOf(id[1])
                /\ endpoints[e3].log = << a.event, a.event >>

\* C9. Acknowledgment never fails: ack and nack return normally and settle
\* the envelope, a nack suspended in its re-publish included. With the engine gone, a nack with requeue changes only the
\* acker's settled flag. When the re-publish fails on a closed endpoint the
\* error is dropped, the envelope is settled and the event was published
\* once, not again.
C9_AckNeverFails ==
  [][ \A id \in EnvelopeIds :
        LET e == id[1]
            k == id[2]
            a == envelopes[e][k]
        IN  /\ (Ack(e, k) \/ Nack(e, k))
                 => (ret' = "Ok" /\ envelopes'[e][k].done)
            /\ \A j \in InFlight :
                 (Returns(j) /\ tasks[j].op = "nack")
                   => (ret' = "Ok" /\ tasks'[j].result = "Ok")
            /\ (Nack(e, k) /\ a.requeue /\ ~inner_alive)
                 => /\ NoPublish
                    /\ UNCHANGED << config, inner_alive, values_order, consumers >>
                    /\ envelopes' = [envelopes EXCEPT ![e][k] = swap_done(a, "nack")]
            /\ ( /\ FirstNackRequeue(e, k)
                 /\ a.channel \in DOMAIN groups
                 /\ ClosedTargets(a.channel) # {} )
                 => /\ ret' = "Ok"
                    /\ envelopes'[e][k].done
                    /\ envelopes'[e][k].requeued = 1
                    /\ Len(pub_log'[a.channel]) = Len(pub_log[a.channel]) + 1
                    /\ \A t \in ClosedTargets(a.channel) :
                         \A e2 \in Range(groups[a.channel][t].consumers) :
                           endpoints'[e2].log = endpoints[e2].log ]_vars

\* C9 witness: the engine is gone and an envelope with requeue was settled
\* by a nack that published nothing.
C9_Witness ==
  /\ ~inner_alive
  /\ ret = "Ok"
  /\ \E id \in EnvelopeIds :
       LET a == envelopes[id[1]][id[2]]
       IN  a.requeue /\ a.done /\ a.by = "nack" /\ a.requeued = 0

\* C10. Enqueue failure is reported: a publish_event for which some group's
\* round-robin target has no live receiver returns an Unknown error, and no
\* other subscriber of such a group is enqueued the event in its place; a
\* publish_event suspended between its dispatches returns the error at the
\* dispatch that finds its target closed.
C10_EnqueueFailureReported ==
  [][ /\ \A c \in Channels, event \in Events :
           ( /\ PublishEvent(c, event)
             /\ c \in DOMAIN groups
             /\ ClosedTargets(c) # {} )
             => /\ ret' = "Unknown"
                /\ \A t \in ClosedTargets(c) :
                     \A e \in Range(groups[c][t].consumers) :
                       endpoints'[e].log = endpoints[e].log
      /\ \A k \in InFlight :
           ( /\ ResumeDispatch(k)
             /\ tasks[k].op = "publish_event"
             /\ endpoints[RRTarget(GroupAt(k))].rx # "live" )
             => /\ Returns(k)
                /\ tasks'[k].result = "Unknown"
                /\ ret' = "Unknown"
                /\ endpoints' = endpoints ]_vars

\* C10 witness: a publish_event has returned an Unknown error and a
\* subscriber of the channel is closed.
C10_Witness ==
  /\ ret = "Unknown"
  /\ \E c \in DOMAIN groups :
       /\ pub_log[c] # << >>
       /\ \E e \in EndpointsOf(c) : endpoints[e].rx = "dropped"

\* C11 (as claimed). Cancellation is silent: a publish_event whose
\* round-robin target in some group has a dropped or closed receiver returns
\* success.
C11_CancellationSilent ==
  [][ \A c \in Channels, event \in Events :
        ( /\ PublishEvent(c, event)
          /\ c \in DOMAIN groups
          /\ ClosedTargets(c) # {} )
          => ret' = "Ok" ]_vars

\* C11 (amended). After a subscriber drops or closes its receiving endpoint,
\* a publish_event whose round-robin target is that endpoint enqueues nothing
\* to it, leaves every closed endpoint and every subscriber list as they
\* were and moves the cursor of the group it failed on, but is not silent:
\* the call returns an Unknown error to the publisher.
C11_CancellationReported ==
  [][ \A c \in Channels, event \in Events :
        ( /\ PublishEvent(c, event)
          /\ c \in DOMAIN groups
          /\ ClosedTargets(c) # {} )
          => /\ ret' = "Unknown"
             /\ \A e \in EndpointsOf(c) :
                  endpoints[e].rx # "live" => endpoints'[e] = endpoints[e]
             /\ \A t \in DOMAIN groups[c] :
                  groups'[c][t].consumers = groups[c][t].consumers
             /\ \E t \in ClosedTargets(c) :
                  groups'[c][t].idx = RRNext(groups[c][t]) ]_vars

\* C11 witness: a group of two subscribers, the first dropped before any
\* publish; the one publish_event made fell on the dropped one, returned an
\* Unknown error and left both subscribers without the event.
C11_Witness ==
  /\ ret = "Unknown"
  /\ \E key \in GroupKeys :
       LET c == key[1]
           g == groups[c][key[2]]
       IN  /\ Len(g.consumers) = 2
           /\ g.idx = 1
           /\ Len(pub_log[c]) = 1
           /\ pub_log[c][1].by = "publish_event"
           /\ endpoints[g.consumers[1]].rx = "dropped"
           /\ endpoints[g.consumers[2]].rx = "live"
           /\ endpoints[g.consumers[1]].log = << >>
           /\ endpoints[g.consumers[2]].log = << >>

\* s is an initial part of t.
IsPrefix(s, t) == Len(s) <= Len(t) /\ SubSeq(t, 1, Len(s)) = s

\* Every endpoint of channel c outside group g is live (so no publish to c
\* stops before it reaches g).
OthersLive(c, g) ==
  \A e \in EndpointsOf(c) \ Range(g.consumers) : endpoints[e].rx = "live"

\* C12. A consumer group never shrinks: no step removes a group or a
\* subscriber slot, or changes a slot's position, while the engine lives,
\* and dropping a stream leaves the registry as it was; a dispatch whose
\* turn falls on a closed slot moves the cursor on and enqueues to nobody. In a group whose N
\* subscribers were registered before the first publish and that every
\* publish reaches, the publishes being made one after the other, whatever
\* subscribers have dropped their endpoints: the
\* cursor is the number of dispatches modulo N (it keeps visiting every slot
\* once in N dispatches), each live subscriber j holds exactly the events at
\* the dispatch indices congruent to j modulo N, and a dropped subscriber
\* holds only events of its own slot (those enqueued before it dropped).
C12_GroupNeverShrinks ==
  /\ [][ /\ \A key \in GroupKeys :
              inner_alive'
                => /\ key[1] \in DOMAIN groups'
                   /\ key[2] \in DOMAIN groups'[key[1]]
                   /\ IsPrefix(groups[key[1]][key[2]].consumers,
                               groups'[key[1]][key[2]].consumers)
         /\ \A e \in DOMAIN endpoints : DropStream(e) => groups' = groups
         /\ \A k \in InFlight : ResumeDispatch(k) => DispatchEffect(k) ]_vars
  /\ [](\A key \in GroupKeys :
          LET c == key[1]
              g == groups[c][key[2]]
              n == Len(g.consumers)
          IN  ( /\ Sequential
                /\ OthersLive(c, g)
                /\ \A i \in 1..n : endpoints[g.consumers[i]].reg_at = 0 )
              => /\ g.idx = Len(pub_log[c]) % n
                 /\ \A i \in 1..n :
                      LET ep == endpoints[g.consumers[i]]
                          share == PickMod(PubEvents(c), 1, i - 1, n)
                      IN  IF ep.rx = "live"
                            THEN ep.log = share
                            ELSE IsPrefix(ep.log, share))

\* C12 witness: subscribers A, B of one group, A dropped before the first
\* publish, then E1, E2, E3 published: the group still has two slots, E1 and
\* E3 fell on A's slot and reached nobody, B holds E2 only.
C12_Witness ==
  \E key \in GroupKeys :
    LET c == key[1]
        g == groups[c][key[2]]
    IN  /\ Len(g.consumers) = 2
        /\ Sequential
        /\ g.idx = 1
        /\ PubEvents(c) = << Event(1), Event(2), Event(3) >>
        /\ endpoints[g.consumers[1]].rx = "dropped"
        /\ endpoints[g.consumers[1]].log = << >>
        /\ endpoints[g.consumers[2]].rx = "live"
        /\ endpoints[g.consumers[2]].log = << Event(2) >>

\* C15 (as claimed). The stream returned by stream_events never yields end
\* of stream, also after the broker and every publisher and consumer handle
\* have been dropped while the stream is held.
C15_StreamInfinite ==
  /\ ret # "None"
  /\ \A e \in DOMAIN endpoints : endpoints[e].rx # "ended"

\* C18. No backpressure: a publish_event is possible whatever the queues
\* hold, and so is the next step of a suspended call; when every
\* round-robin target of the channel is live it returns Ok and each
\* target's queue is the queue it had with the event appended, whatever its
\* length. No step other than the subscriber's own dequeue takes an event
\* out of a live queue, and a sole subscriber of a group that has never
\* dequeued holds every event enqueued to it: after sequential publishes,
\* every event published since it registered.
C18_NoBackpressure ==
  /\ [][ /\ \A c \in Channels, event \in Events :
              ( /\ PublishEvent(c, event)
                /\ c \in DOMAIN groups
                /\ ClosedTargets(c) = {} )
                => /\ ret' = "Ok"
                   /\ \A t \in DOMAIN groups[c] :
                        LET tg == RRTarget(groups[c][t])
                        IN  Queue(endpoints'[tg]) = Append(Queue(endpoints[tg]), event)
         /\ \A e \in DOMAIN endpoints :
              (endpoints'[e].rx = "live" /\ ~Next_(e))
                => IsPrefix(Queue(endpoints[e]), Queue(endpoints'[e]))
         /\ \A k \in InFlight :
              (ResumeDispatch(k) /\ endpoints[RRTarget(GroupAt(k))].rx = "live")
                => Queue(endpoints'[RRTarget(GroupAt(k))]) =
                     Append(Queue(endpoints[RRTarget(GroupAt(k))]), tasks[k].event) ]_vars
  /\ []( /\ (inner_alive /\ Budget)
              => \A c \in Channels : ENABLED PublishEvent(c, Event(NumPublishCalls + 1))
         /\ \A k \in InFlight : ENABLED (ResumeRead(k) \/ ResumeDispatch(k))
         /\ \A key \in GroupKeys :
              LET c == key[1]
                  g == groups[c][key[2]]
                  ep == endpoints[g.consumers[1]]
              IN  ( /\ Len(g.consumers) = 1
                    /\ OthersLive(c, g)
                    /\ ep.rx = "live"
                    /\ ep.head = 0 )
                  => /\ Queue(ep) = ep.log
                     /\ Sequential =>
                          Queue(ep) = SubSeq(PubEvents(c), ep.reg_at + 1, Len(pub_log[c])) )

\* C18 witness: a live subscriber that has never dequeued holds four
\* events in its queue, and the last publish_event returned Ok.
C18_Witness ==
  /\ ret = "Ok"
  /\ Sequential
  /\ \E e \in DOMAIN endpoints :
       /\ endpoints[e].rx = "live"
       /\ endpoints[e].head = 0
       /\ envelopes[e] = << >>
       /\ Queue(endpoints[e]) = << Event(1), Event(2), Event(3), Event(4) >>

\* The (channel, tag) pairs that have a group, among those the concurrent
\* calls use.
ConcGroupKeys ==
  { o \in ConcOptions : o[1] \in DOMAIN groups /\ o[2] \in DOMAIN groups[o[1]] }

\* The events stream e has yielded, in the order it yielded them.
Dequeued(e) == [j \in DOMAIN envelopes[e] |-> envelopes[e][j].event]

\* s can be obtained from t by leaving elements out (order kept).
RECURSIVE IsSubseq(_, _)
IsSubseq(s, t) ==
  IF s = << >> THEN TRUE
  ELSE IF t = << >> THEN FALSE
  ELSE IF Head(s) = Head(t) THEN IsSubseq(Tail(s), Tail(t))
  ELSE IsSubseq(s, Tail(t))

\* C13. Per-group ordering: under any interleaving of concurrent publish
\* calls, re-publishes by nack included, what each subscriber of a group
\* has been enqueued, and what it has dequeued, is a subsequence in the same
\* order of the events dispatched to the group in the order the publishes
\* acquired the group's write lock; the subscriber dequeues in the order of
\* its queue. (Two tags of one channel can see opposite orders: witness.)
C13_PerGroupOrdering ==
  \A key \in ConcGroupKeys :
    \A i \in DOMAIN groups[key[1]][key[2]].consumers :
      LET e == groups[key[1]][key[2]].consumers[i]
      IN  /\ IsSubseq(endpoints[e].log, dispatch_log[key])
          /\ IsPrefix(Dequeued(e), endpoints[e].log)
          /\ IsSubseq(Dequeued(e), dispatch_log[key])

\* C13 witness: two concurrent publishes of E1 and E2 to a channel with two
\* tags; one group was dispatched E1 then E2 and the other E2 then E1, and
\* the subscriber of each has dequeued both in its group's order.
C13_Witness ==
  \E k1, k2 \in ConcGroupKeys :
    /\ k1[1] = k2[1]
    /\ k1 # k2
    /\ dispatch_log[k1] = << Event(1), Event(2) >>
    /\ dispatch_log[k2] = << Event(2), Event(1) >>
    /\ Len(groups[k1[1]][k1[2]].consumers) = 1
    /\ Len(groups[k2[1]][k2[2]].consumers) = 1
    /\ Dequeued(groups[k1[1]][k1[2]].consumers[1]) = dispatch_log[k1]
    /\ Dequeued(groups[k2[1]][k2[2]].consumers[1]) = dispatch_log[k2]

\* The places (group, index) at which endpoint e is registered.
SlotsOf(e) ==
  UNION { { << key, i >> : i \in { j \in DOMAIN groups[key[1]][key[2]].consumers :
                                     groups[key[1]][key[2]].consumers[j] = e } }
          : key \in ConcGroupKeys }

\* C14. The registry is append-only and unique per key: under any
\* interleaving of register_consumer and publish calls no step removes or
\* replaces a group; a group's subscriber list changes only by one new
\* endpoint appended at its end, with the cursor left as it was; a
\* registration grows the group of its own (channel, tag) and no other.
\* Every endpoint is registered at exactly one place, and every completed
\* registration, concurrent ones included, has its own endpoint in its
\* group.
C14_RegistryAppendOnly ==
  /\ [][ /\ \A key \in ConcGroupKeys :
              /\ key[1] \in DOMAIN groups'
              /\ key[2] \in DOMAIN groups'[key[1]]
              /\ LET g == groups[key[1]][key[2]]
                     g2 == groups'[key[1]][key[2]]
                 IN  /\ IsPrefix(g.consumers, g2.consumers)
                     /\ g2.consumers # g.consumers
                          => /\ g2.consumers = Append(g.consumers, Len(endpoints) + 1)
                             /\ Len(endpoints') = Len(endpoints) + 1
                             /\ g2.idx = g.idx
         /\ \A k \in Tasks :
              /\ (\E o \in ConcOptions : CallRegister(k, o[1], o[2]))
                   => \A key \in ConcGroupKeys :
                        groups'[key[1]][key[2]] = groups[key[1]][key[2]]
              /\ RegisterAdd(k)
                   => /\ Len(groups'[tasks[k].channel][tasks[k].tag].consumers)
                           = Len(groups[tasks[k].channel][tasks[k].tag].consumers) + 1
                      /\ \A key \in ConcGroupKeys \ {<< tasks[k].channel, tasks[k].tag >>} :
                           groups'[key[1]][key[2]] = groups[key[1]][key[2]] ]_vars
  /\ []( /\ \A e \in DOMAIN endpoints : Cardinality(SlotsOf(e)) = 1
         /\ \A k \in Tasks :
              (tasks[k].op = "register" /\ tasks[k].pc = "done")
                => /\ tasks[k].rx \in
                        Range(groups[tasks[k].channel][tasks[k].tag].consumers)
                   /\ \A k2 \in Tasks \ {k} :
                        (tasks[k2].op = "register" /\ tasks[k2].pc = "done")
                          => tasks[k2].rx # tasks[k].rx )

\* C14 witness: a group that had two subscribers and a moved cursor got two
\* more by two registrations that were in progress at the same time; the
\* group has four subscribers, the new ones at indices 2 and 3, and the
\* cursor is where the publish left it.
C14_Witness ==
  \E k1, k2 \in Tasks :
    /\ k1 # k2
    /\ tasks[k1].op = "register" /\ tasks[k1].pc = "done"
    /\ tasks[k2].op = "register" /\ tasks[k2].pc = "done"
    /\ tasks[k1].channel = tasks[k2].channel
    /\ tasks[k1].tag = tasks[k2].tag
    /\ LET g == groups[tasks[k1].channel][tasks[k1].tag]
       IN  /\ Len(g.consumers) = 4
           /\ g.consumers[3] = tasks[k1].rx
           /\ g.consumers[4] = tasks[k2].rx
           /\ g.idx = 1

\* C17. Reader-writer discipline of the registry: while a registration
\* holds the registry write lock it is the only holder, and no step of a
\* publish (reading the registry, taking a group lock, dispatching) happens
\* until it has appended its endpoint; while a publish holds the read lock
\* the registry's keys, subscriber lists and iteration order do not change.
\* (Publishes to different channels dispatch at the same time: witness.)
C17_ReaderWriterDiscipline ==
  /\ [](RegistryWriters # {}
          => (Cardinality(RegistryWriters) = 1 /\ RegistryReaders = {}))
  /\ [][ /\ RegistryWriters # {}
              => \A j \in Tasks :
                   /\ ~PublishRead(j) /\ ~PublishGroupLock(j) /\ ~PublishDispatch(j)
                   /\ \A c \in ConcChannels : ~CallPublish(j, c)
         /\ RegistryReaders # {}
              => /\ values_order' = values_order
                 /\ DOMAIN groups' = DOMAIN groups
                 /\ \A c \in DOMAIN groups :
                      /\ DOMAIN groups'[c] = DOMAIN groups[c]
                      /\ \A t \in DOMAIN groups[c] :
                           groups'[c][t].consumers = groups[c][t].consumers ]_vars

\* C17 witness: two publish calls to different channels both hold the
\* registry read lock and a group lock each, about to dispatch.
C17_Witness ==
  \E k1, k2 \in Tasks :
    /\ tasks[k1].pc = "p_dispatch"
    /\ tasks[k2].pc = "p_dispatch"
    /\ tasks[k1].channel # tasks[k2].channel
    /\ {k1, k2} \subseteq RegistryReaders

\* C16: a consumer stream continues past every failure: every error element
\* it has yielded is of Consumer kind, and after yielding an error element
\* the generator is still in its loop, so that a later well-formed message
\* is yielded as an envelope. Checked on KafkaSpec.
C16_StreamContinuesPastFailures ==
  /\ \A i \in DOMAIN kafka.yielded :
       ~kafka.yielded[i].ok => kafka.yielded[i].error = "Consumer"
  /\ (\E i \in DOMAIN kafka.yielded : ~kafka.yielded[i].ok) => kafka.state = "running"

\* C19: an event built from a payload P with EventBuilder::build carries the
\* structured encoding of P: the bytes that data_as_bytes returns parse
\* (serde_json::from_slice) to to_value(P), and data_as_value returns
\* to_value(P) as well. Checked on EventSpec for every payload of Payloads
\* and every builder chain; view holds the result of the view last called.
\* It fails for the payload 1.2e-30: its bytes are "1.2e-30", which
\* from_slice reads as 12 as f64 divided by 1e31, the f64 next to 1.2e-30.
C19_EventRoundTrip ==
  (built.op = "build" /\ built.result.ok) =>
    LET encoding == to_value(built.data.value)
    IN  /\ encoding.ok
        /\ Event_data_as_bytes(built.result.v).ok
        /\ from_slice(Event_data_as_bytes(built.result.v).v).ok
        /\ ValueEq(from_slice(Event_data_as_bytes(built.result.v).v).v, encoding.v)
        /\ Event_data_as_value(built.result.v).ok
        /\ ValueEq(Event_data_as_value(built.result.v).v, encoding.v)
        /\ view.op = "data_as_bytes" =>
             /\ view.result.ok
             /\ from_slice(view.result.v).ok
             /\ ValueEq(from_slice(view.result.v).v, encoding.v)
        /\ view.op = "data_as_value" =>
             /\ view.result.ok
             /\ ValueEq(view.result.v, encoding.v)

\* C20: once a schema_url or maybe_schema_url call of the chain was given an
\* invalid URL, build and build_raw return an error and no event, whatever
\* was called before or after (a later valid URL included); and build of a
\* payload that has no structured encoding returns a Serialization error,
\* with or without a recorded error.
C20_DeferredBuilderError ==
  built.op # "" =>
    /\ event_builder.invalid_url => ~built.result.ok
    /\ (built.op = "build" /\ ~to_value(built.data.value).ok) =>
         (~built.result.ok /\ built.result.error = "Serialization")

\* A chain with id and source set got an invalid schema URL and then a valid
\* one; build of an encodable payload returned the recorded error.
C20_Witness ==
  /\ built.op = "build"
  /\ to_value(built.data.value).ok
  /\ event_builder.invalid_url
  /\ event_builder.b.schema_url.some
  /\ event_builder.b.inner.id.some
  /\ event_builder.b.inner.source.some
  /\ ~built.result.ok
  /\ built.result.error = "Unknown"

\* C21: every data view of an event without payload returns
\* MissingEventData, and a data view that fails on an event with a payload
\* returns a Deserialization error and no other kind. Checked on EventSpec,
\* where view holds the view last asked of the event built.
C21_DataViewErrors ==
  (view.op # "" /\ built.result.ok) =>
    /\ built.result.v.data.variant = "None" =>
         (~view.result.ok /\ view.result.error = "MissingEventData")
    /\ (built.result.v.data.variant # "None" /\ ~view.result.ok) =>
         view.result.error = "Deserialization"

\* The envelopes that carry event and have re-published it.
RequeuedAckers(event) ==
  { id \in EnvelopeIds : /\ envelopes[id[1]][id[2]].event = event
                         /\ envelopes[id[1]][id[2]].requeued > 0 }

\* C22. Concurrent settling: with ack and nack called concurrently on one
\* envelope and its clones (one shared flag, requeue on), every call leaves
\* the flag set; only a call that finds it clear is recorded as the settling
\* call and a call that finds it set changes nothing and publishes nothing;
\* the envelope re-publishes exactly once if the settling call is a nack and
\* never if it is an ack, and a group is dispatched an event at most once
\* for its publish and once for each envelope of it settled by nack.
C22_ConcurrentSettling ==
  /\ [](/\ \A id \in EnvelopeIds :
             LET a == envelopes[id[1]][id[2]]
             IN  /\ a.done <=> a.by \in {"ack", "nack"}
                 /\ a.by = "ack" => a.requeued = 0
                 /\ a.by = "nack" => a.requeued = 1
                 /\ ~a.done => a.requeued = 0
        /\ \A key \in ConcGroupKeys, n \in Tasks :
             Cardinality({ i \in DOMAIN dispatch_log[key] :
                             dispatch_log[key][i] = Event(n) })
               <= 1 + Cardinality(RequeuedAckers(Event(n))))
  /\ [][ \A k \in Tasks, id \in EnvelopeIds :
           (CallAck(k, id[1], id[2]) \/ CallNack(k, id[1], id[2])) =>
             LET a == envelopes[id[1]][id[2]]
                 a2 == envelopes'[id[1]][id[2]]
             IN  /\ a2.done
                 /\ a.done => (a2 = a /\ tasks'[k].pc = "done")
                 /\ ~a.done => a2.by = tasks'[k].op
                 /\ tasks'[k].pc = "p_read" <=> (~a.done /\ tasks'[k].op = "nack")
                 /\ \A other \in EnvelopeIds \ {id} :
                      envelopes'[other[1]][other[2]] = envelopes[other[1]][other[2]] ]_vars

\* C22 witness: one envelope was delivered; a nack settled it and its
\* re-publish is in progress while a second call on the same envelope has
\* returned without effect.
C22_Witness ==
  /\ Cardinality(EnvelopeIds) = 1
  /\ \A id \in EnvelopeIds :
       /\ envelopes[id[1]][id[2]].by = "nack"
       /\ envelopes[id[1]][id[2]].requeued = 1
  /\ \E k1, k2 \in Tasks :
       /\ tasks[k1].op = "nack"
       /\ tasks[k1].pc \in {"p_read", "p_group", "p_dispatch"}
       /\ tasks[k2].op \in {"ack", "nack"}
       /\ tasks[k2].pc = "done"
       /\ tasks[k2].i = 0

\* No register_consumer call of the run was made on group key: its
\* subscribers are those it started with.
NoRegistration(key) ==
  \A k \in Tasks :
    tasks[k].op = "register" => << tasks[k].channel, tasks[k].tag >> # key

\* The dispatches of group key that have been carried out: its dispatch
\* order without the event of the call that holds its lock.
Dispatched(key) ==
  SubSeq(dispatch_log[key], 1,
         Len(dispatch_log[key]) - Cardinality(GroupWriters(key[1], key[2])))

\* C23. Dispatch is atomic per group: at most one call is between taking a
\* group's lock and the end of its dispatch, and under any interleaving of
\* concurrent publishes (re-publishes by nack included) to a group of N live
\* subscribers no cursor update is lost: the cursor is the number of
\* dispatches carried out modulo N, the subscriber at index i holds exactly
\* the events at the positions congruent to i modulo N of the group's
\* dispatch order, every dispatched event is held by exactly one subscriber,
\* and the subscribers' counts differ by at most one.
C23_DispatchAtomicPerGroup ==
  \A key \in ConcGroupKeys :
    LET g == groups[key[1]][key[2]]
        n == Len(g.consumers)
        held(i) == endpoints[g.consumers[i]].log
    IN  /\ Cardinality(GroupWriters(key[1], key[2])) <= 1
        /\ (NoRegistration(key) /\ n > 0) =>
             /\ g.idx = Len(Dispatched(key)) % n
             /\ \A i \in 1..n : held(i) = PickMod(Dispatched(key), 1, i - 1, n)
             /\ \A p \in DOMAIN Dispatched(key) :
                  Cardinality({ i \in 1..n :
                                  \E q \in DOMAIN held(i) :
                                    /\ held(i)[q] = Dispatched(key)[p]
                                    /\ (q - 1) * n + i = p }) = 1
             /\ \A i, j \in 1..n : Len(held(i)) <= Len(held(j)) + 1

\* C23 witness: three concurrent publishes to a group of two subscribers
\* took the group's lock in another order than they were called in; the
\* first subscriber holds the first and third event of that order, the
\* second subscriber the second.
C23_Witness ==
  \E key \in ConcGroupKeys :
    LET g == groups[key[1]][key[2]]
    IN  /\ NoRegistration(key)
        /\ Len(g.consumers) = 2
        /\ dispatch_log[key] = << Event(2), Event(3), Event(1) >>
        /\ \A k \in Tasks : tasks[k].op = "publish"
        /\ endpoints[g.consumers[1]].log = << Event(2), Event(1) >>
        /\ endpoints[g.consumers[2]].log = << Event(3) >>
        /\ g.idx = 1

\* Every envelope but those of ids is as it was before the step.
OtherEnvelopesUnchanged(ids) ==
  \A other \in EnvelopeIds \ ids :
    envelopes'[other[1]][other[2]] = envelopes[other[1]][other[2]]

\* C24. One acknowledger per delivery: every envelope a stream yields,
\* redeliveries of an event and copies for other tags included, has a flag
\* of its own that starts unsettled, and yielding it changes no other
\* envelope; an ack or nack changes the envelope it is called on and no
\* other. With requeue on and the engine alive, a nack on any unsettled
\* envelope re-publishes its event, however often the event was re-published
\* before: there is no retry limit.
C24_OneAckerPerDelivery ==
  [][ /\ \A e \in DOMAIN endpoints :
           (Next_(e) /\ Queue(endpoints[e]) # << >>) =>
             /\ Len(envelopes'[e]) = Len(envelopes[e]) + 1
             /\ LET a == envelopes'[e][Len(envelopes'[e])]
                IN  /\ ~a.done
                    /\ a.by = "none"
                    /\ a.requeued = 0
                    /\ a.event = Head(Queue(endpoints[e]))
             /\ OtherEnvelopesUnchanged({})
      /\ \A id \in EnvelopeIds :
           /\ (Ack(id[1], id[2]) \/ Nack(id[1], id[2])) =>
                /\ OtherEnvelopesUnchanged({id})
                /\ envelopes'[id[1]][id[2]].done
           /\ ( /\ Nack(id[1], id[2])
                /\ ~envelopes[id[1]][id[2]].done
                /\ endpoints[id[1]].requeue
                /\ inner_alive ) =>
                LET a == envelopes[id[1]][id[2]]
                IN  pub_log'[a.channel] =
                      Append(pub_log[a.channel], LogEntry(a.event, "nack")) ]_vars

\* C24 witness: a single subscriber was delivered E1, nacked it, was
\* delivered it again and nacked that envelope too: both envelopes were
\* settled by their own nack, each re-published once, and the event was
\* enqueued a third time.
C24_Witness ==
  \E e \in DOMAIN endpoints :
    /\ Len(envelopes[e]) = 2
    /\ \A k \in 1..2 :
         /\ envelopes[e][k].event = Event(1)
         /\ envelopes[e][k].by = "nack"
         /\ envelopes[e][k].requeued = 1
    /\ endpoints[e].log = << Event(1), Event(1), Event(1) >>

\* The subscribers of group (c, t) in registry reg, none if it has no such
\* group.
SubscribersIn(reg, c, t) ==
  IF c \in DOMAIN reg /\ t \in DOMAIN reg[c] THEN reg[c][t].consumers ELSE << >>

\* C25. Restartable per call: every stream_events call, on whatever handle
\* and however many streams the handle has made, appends one new endpoint to
\* the subscribers of the handle's (channel, tag) group and changes no other
\* group. Two streams of one consumer compete: a publish_event to the
\* channel, every endpoint of the channel being live, enqueues the event to
\* exactly one subscriber of each group; and of the events published after
\* the second stream was registered the first stream holds those at the even
\* positions and the second those at the odd ones.
C25_RestartablePerCall ==
  /\ [][ /\ \A h \in consumers :
              StreamEvents(h) =>
                /\ SubscribersIn(groups', h.channel, h.tag) =
                     Append(SubscribersIn(groups, h.channel, h.tag), Len(endpoints) + 1)
                /\ Len(endpoints') = Len(endpoints) + 1
                /\ endpoints'[Len(endpoints')].log = << >>
                /\ \A key \in GroupKeys \ {<< h.channel, h.tag >>} :
                     groups'[key[1]][key[2]] = groups[key[1]][key[2]]
         /\ \A c \in Channels, event \in Events :
              (PublishEvent(c, event) /\ c \in DOMAIN groups /\ AllLive(c)) =>
                \A t \in DOMAIN groups[c] :
                  Cardinality({ i \in DOMAIN groups[c][t].consumers :
                                  endpoints'[groups[c][t].consumers[i]].log
                                    # endpoints[groups[c][t].consumers[i]].log }) = 1
         /\ \A k \in InFlight :
              (ResumeDispatch(k) /\ AllLive(tasks[k].channel)) =>
                Cardinality(Delivered \cap Range(GroupAt(k).consumers)) = 1 ]_vars
  /\ [](\A key \in GroupKeys :
          LET c == key[1]
              g == groups[c][key[2]]
              first == endpoints[g.consumers[1]]
              second == endpoints[g.consumers[2]]
              before == SubSeq(PubEvents(c), first.reg_at + 1, second.reg_at)
              after == SubSeq(PubEvents(c), second.reg_at + 1, Len(pub_log[c]))
          IN  (Len(g.consumers) = 2 /\ AllLive(c) /\ Sequential) =>
                /\ first.log = before \o PickMod(after, 1, 0, 2)
                /\ second.log = PickMod(after, 1, 1, 2)
                /\ \A i \in DOMAIN after :
                     Cardinality({ s \in 1..2 :
                       \E q \in DOMAIN endpoints[g.consumers[s]].log :
                         /\ endpoints[g.consumers[s]].log[q] = after[i]
                         /\ q = (IF s = 1 THEN Len(before) ELSE 0) + ((i - 1) \div 2) + 1
                         /\ (i - 1) % 2 = s - 1 }) = 1)

\* C25 witness: a consumer handle's first stream was registered and E1
\* published, then a second stream of the handle was registered and E2, E3
\* published: the first stream holds E1 and E2, the second E3.
C25_Witness ==
  \E key \in GroupKeys :
    LET c == key[1]
        g == groups[c][key[2]]
    IN  /\ Len(g.consumers) = 2
        /\ AllLive(c)
        /\ Sequential
        /\ endpoints[g.consumers[1]].reg_at = 0
        /\ endpoints[g.consumers[2]].reg_at = 1
        /\ endpoints[g.consumers[1]].log = << Event(1), Event(2) >>
        /\ endpoints[g.consumers[2]].log = << Event(3) >>

\* The tag of the first group, in the iteration order of channel c, whose
\* round-robin target is closed: the group whose dispatch fails.
FailingTag(c) ==
  values_order[c][CHOOSE i \in DOMAIN values_order[c] :
                    /\ values_order[c][i] \in ClosedTargets(c)
                    /\ \A j \in 1..(i - 1) : values_order[c][j] \notin ClosedTargets(c)]

\* The indices of the closed subscribers of group g.
ClosedSlots(g) ==
  { i \in DOMAIN g.consumers : endpoints[g.consumers[i]].rx # "live" }

\* C26. A failed enqueue still advances the cursor: the group whose dispatch
\* fails on a closed endpoint has its cursor moved on by one (modulo its
\* size), so that with two or more subscribers the next dispatch selects
\* another one. In a channel with a single group of N subscribers of which
\* exactly one is closed, a publish_event returns an error exactly when the
\* cursor is at the closed subscriber, and moves the cursor on by one either
\* way: one of every N consecutive publishes fails. When the closed
\* subscriber was never enqueued anything and all were registered before the
\* first publish, the events of every position but those of its slot have
\* been delivered, each to the subscriber of its slot.
C26_FailedEnqueueAdvances ==
  /\ [][ \A c \in Channels, event \in Events :
           (PublishEvent(c, event) /\ c \in DOMAIN groups) =>
             /\ ClosedTargets(c) # {} =>
                  LET g == groups[c][FailingTag(c)]
                      g2 == groups'[c][FailingTag(c)]
                  IN  /\ g2.idx = (g.idx + 1) % Len(g.consumers)
                      /\ g2.consumers = g.consumers
                      /\ Len(g.consumers) >= 2 => RRTarget(g2) # RRTarget(g)
             /\ Cardinality(DOMAIN groups[c]) = 1 =>
                  \A t \in DOMAIN groups[c] :
                    LET g == groups[c][t]
                    IN  Cardinality(ClosedSlots(g)) = 1 =>
                          /\ ret' = "Unknown" <=> (g.idx + 1) \in ClosedSlots(g)
                          /\ ret' = "Ok" <=> (g.idx + 1) \notin ClosedSlots(g)
                          /\ groups'[c][t].idx = (g.idx + 1) % Len(g.consumers)
         /\ \A k \in InFlight :
              (ResumeDispatch(k) /\ endpoints[RRTarget(GroupAt(k))].rx # "live") =>
                LET ch == tasks[k].channel
                    tg == values_order[ch][tasks[k].i]
                    g == groups[ch][tg]
                    g2 == groups'[ch][tg]
                IN  /\ g2.idx = (g.idx + 1) % Len(g.consumers)
                    /\ g2.consumers = g.consumers
                    /\ Len(g.consumers) >= 2 => RRTarget(g2) # RRTarget(g) ]_vars
  /\ [](\A c \in DOMAIN groups :
          Cardinality(DOMAIN groups[c]) = 1 =>
            \A t \in DOMAIN groups[c] :
              LET g == groups[c][t]
                  n == Len(g.consumers)
              IN  ( /\ Sequential
                    /\ Cardinality(ClosedSlots(g)) = 1
                    /\ \A i \in 1..n : endpoints[g.consumers[i]].reg_at = 0
                    /\ \A i \in ClosedSlots(g) : endpoints[g.consumers[i]].log = << >> )
                  => /\ g.idx = Len(pub_log[c]) % n
                     /\ \A i \in 1..n :
                          endpoints[g.consumers[i]].log =
                            IF i \in ClosedSlots(g)
                              THEN << >>
                              ELSE PickMod(PubEvents(c), 1, i - 1, n))

\* C26 witness: a single group of two subscribers, the first closed before
\* it was enqueued anything; of three publishes the first and the third
\* failed and the second reached the live subscriber, and the cursor is at
\* the live one.
C26_Witness ==
  \E c \in DOMAIN groups :
    /\ Cardinality(DOMAIN groups[c]) = 1
    /\ \A t \in DOMAIN groups[c] :
         LET g == groups[c][t]
         IN  /\ Len(g.consumers) = 2
             /\ ClosedSlots(g) = {1}
             /\ endpoints[g.consumers[1]].log = << >>
             /\ endpoints[g.consumers[2]].log = << Event(2) >>
             /\ g.idx = 1
    /\ PubEvents(c) = << Event(1), Event(2), Event(3) >>
    /\ Sequential
    /\ ret = "Unknown"

\* The endpoints registered in registry reg under channel c.
RegisteredIn(reg, c) ==
  IF c \in DOMAIN reg
    THEN UNION { Range(reg[c][t].consumers) : t \in DOMAIN reg[c] }
    ELSE {}

\* C27. No replay: Broker::consumer registers nothing (no group, no
\* endpoint); a publish, by publish_event or by nack, enqueues only to
\* endpoints registered under its channel when it executes and creates none;
\* what an endpoint has been enqueued is among the events published to its
\* channel after its registration (in their order, when the publishes were
\* sequential), so an event published before is not delivered by that
\* publish; and a publish_event to a channel
\* without group changes neither registry nor endpoints: the event is lost.
C27_NoReplay ==
  /\ [][ /\ \A o \in ConsumerOptions :
              Consumer(o[1], o[2]) => (groups' = groups /\ endpoints' = endpoints)
         /\ \A c \in Channels :
              pub_log'[c] # pub_log[c] =>
                /\ Delivered \subseteq RegisteredIn(groups, c)
                /\ Len(endpoints') = Len(endpoints)
                /\ c \notin DOMAIN groups =>
                     (groups' = groups /\ endpoints' = endpoints /\ ret' = "Ok")
         /\ \A k \in InFlight :
              ResumeDispatch(k) =>
                /\ Delivered \subseteq RegisteredIn(groups, tasks[k].channel)
                /\ Len(endpoints') = Len(endpoints)
                /\ DOMAIN groups' = DOMAIN groups
                /\ \A c \in DOMAIN groups : DOMAIN groups'[c] = DOMAIN groups[c] ]_vars
  /\ [](\A e \in DOMAIN endpoints :
          LET c == endpoints[e].channel
              since == SubSeq(PubEvents(c), endpoints[e].reg_at + 1, Len(pub_log[c]))
          IN  /\ endpoints[e].reg_at <= Len(pub_log[c])
              /\ Range(endpoints[e].log) \subseteq Range(since)
              /\ Sequential => IsSubseq(endpoints[e].log, since))

\* C27 witness: E1 was published while the channel had no group, then a
\* consumer's stream was registered and E2 published: the stream holds E2
\* only.
C27_Witness ==
  \E e \in DOMAIN endpoints :
    /\ endpoints[e].reg_at = 1
    /\ endpoints[e].rx = "live"
    /\ Len(endpoints) = 1
    /\ PubEvents(endpoints[e].channel) = << Event(1), Event(2) >>
    /\ endpoints[e].log = << Event(2) >>

\* The subscribers of group g that the preceding dispatch of channel c
\* targeted: the last event published to c was published once, and the
\* subscriber's queue ends with it.
LastServed(c, g) ==
  IF pub_log[c] = << >>
    THEN {}
    ELSE LET last == pub_log[c][Len(pub_log[c])].event
         IN  IF Cardinality({ k \in DOMAIN pub_log[c] : pub_log[c][k].event = last }) # 1
               THEN {}
               ELSE { e \in Range(g.consumers) :
                        /\ endpoints[e].log # << >>
                        /\ endpoints[e].log[Len(endpoints[e].log)] = last }

\* C28. Rotation across registrations: a dispatch to a group that has at
\* least two subscribers does not enqueue to the subscriber the preceding
\* dispatch to that group enqueued to, subscribers registered between the
\* two dispatches included.
C28_RotationAcrossRegistrations ==
  [][ \A c \in Channels :
        (pub_log'[c] # pub_log[c] /\ c \in DOMAIN groups) =>
          \A t \in DOMAIN groups[c] :
            LET g == groups[c][t]
            IN  Len(g.consumers) >= 2 =>
                  \A p \in LastServed(c, g) : p \notin Delivered ]_vars

\* C29. Cursor bounds: in every state the cursor of a group without
\* subscriber is 0 and the cursor of every other group is at least 0 and
\* less than the number of its subscribers, whatever the interleaving of
\* registrations and dispatches, failed ones included; the index a dispatch
\* selects with is the cursor itself, a position of the subscriber list, the
\* dispatch enqueues to no other subscriber, and it leaves the cursor one
\* further, wrapped by the number of subscribers.
C29_CursorBounds ==
  /\ [](\A c \in DOMAIN groups : \A t \in DOMAIN groups[c] :
          LET g == groups[c][t]
          IN  IF g.consumers = << >>
                THEN g.idx = 0
                ELSE /\ 0 <= g.idx
                     /\ g.idx < Len(g.consumers)
                     /\ g.idx % Len(g.consumers) = g.idx)
  /\ [][ \A k \in Tasks :
           PublishDispatch(k) =>
             LET g == groups[tasks[k].channel][CurrentTag(k)]
                 g2 == groups'[tasks[k].channel][CurrentTag(k)]
             IN  g.consumers # << >> =>
                   /\ (g.idx + 1) \in DOMAIN g.consumers
                   /\ Delivered \subseteq { g.consumers[g.idx + 1] }
                   /\ tasks[k].op = "publish" =>
                        (tasks'[k].result = "Unknown" <=>
                           endpoints[g.consumers[g.idx + 1]].rx # "live")
                   /\ tasks[k].op = "nack" => tasks'[k].result # "Unknown"
                   /\ g2.idx = (g.idx + 1) % Len(g.consumers)
                   /\ g2.idx < Len(g2.consumers) ]_vars

\* C29 witness: a register_consumer call has made a group and not yet pushed
\* its subscriber, a publish call has failed on a dropped stream, and the
\* cursor of a group of two has advanced.
C29_Witness ==
  /\ \E c \in DOMAIN groups : \E t \in DOMAIN groups[c] :
       groups[c][t] = ConsumerGroup_new
  /\ \E k \in Tasks : tasks[k].op = "publish" /\ tasks[k].result = "Unknown"
  /\ \E c \in DOMAIN groups : \E t \in DOMAIN groups[c] :
       /\ Len(groups[c][t].consumers) = 2
       /\ groups[c][t].idx = 1
       /\ \A i \in 1..2 : endpoints[groups[c][t].consumers[i]].log = << >>

\* The groups of the registry that have no subscriber.
EmptyGroups ==
  { o \in ConcOptions : /\ o[1] \in DOMAIN groups
                        /\ o[2] \in DOMAIN groups[o[1]]
                        /\ groups[o[1]][o[2]].consumers = << >> }

\* C30. No empty group is observable: a group without subscriber exists only
\* while the register_consumer call that made it holds the registry write
\* guard, with no publish inside the registry and the group's lock free; so
\* whenever a publish can read the registry, or is reading it, every channel
\* entry has a group and every group a subscriber; the call leaves the guard
\* with the subscriber pushed; and no dispatch runs on a group without
\* subscriber.
C30_NoEmptyGroupObservable ==
  /\ [](\A o \in EmptyGroups :
          /\ \E k \in RegistryWriters :
               tasks[k].channel = o[1] /\ tasks[k].tag = o[2]
          /\ RegistryReaders = {}
          /\ GroupWriters(o[1], o[2]) = {}
          /\ ~groups_read_ready)
  /\ []((groups_read_ready \/ RegistryReaders # {}) =>
          /\ EmptyGroups = {}
          /\ \A c \in DOMAIN groups : DOMAIN groups[c] # {})
  /\ [][ \A k \in Tasks :
           /\ PublishDispatch(k) =>
                groups[tasks[k].channel][CurrentTag(k)].consumers # << >>
           /\ RegisterAdd(k) =>
                /\ groups'[tasks[k].channel][tasks[k].tag].consumers # << >>
                /\ EmptyGroups \subseteq { << tasks[k].channel, tasks[k].tag >> }
                /\ EmptyGroups' = {} ]_vars

\* C30 witness: a register_consumer call has made the group of a new tag and
\* not yet pushed its subscriber, on a channel a completed publish has
\* dispatched to and on which an envelope waits to be settled.
C30_Witness ==
  \E k \in Tasks :
    /\ tasks[k].pc = "r_add"
    /\ << tasks[k].channel, tasks[k].tag >> \in EmptyGroups
    /\ \E j \in Tasks :
         /\ tasks[j].op = "publish"
         /\ tasks[j].pc = "done"
         /\ tasks[j].result = "Ok"
         /\ tasks[j].channel = tasks[k].channel
    /\ \E id \in EnvelopeIds : endpoints[id[1]].channel = tasks[k].channel

\* A call that has started and not returned.
Pending(k) == tasks[k].pc \in {"p_read", "r_wait", "p_group", "p_dispatch", "r_add"}

\* The tasks holding the lock of some group.
GroupLockHolders == { k \in Tasks : tasks[k].pc = "p_dispatch" }

OtherGroups(c, t) == ConcGroupKeys \ { << c, t >> }

\* Every group of keys is in the next state as it is in this one: subscriber
\* list and cursor.
GroupsKept(keys) ==
  \A key \in keys :
    /\ key[1] \in DOMAIN groups' /\ key[2] \in DOMAIN groups'[key[1]]
    /\ groups'[key[1]][key[2]] = groups[key[1]][key[2]]

\* C32. Channel isolation: a publish to channel c, by publish_event or by
\* the requeue of a nack (which publishes to the channel of the stream the
\* envelope came from), reads the registry entry of c; each of its dispatches
\* changes only the cursor of one group of c and the queue of one subscriber
\* of that group, which gets the call's event, and no other group, of this
\* or another channel, and no other endpoint changes; a registration under
\* (c, t) changes no other group, keeps the cursor of its own and changes no
\* existing queue; so every endpoint is registered under its own channel
\* only and is enqueued only events of calls made on that channel.
C32_ChannelIsolation ==
  /\ [][ \A k \in Tasks :
           /\ \A c \in ConcChannels :
                CallPublish(k, c) =>
                  /\ tasks'[k].channel = c
                  /\ GroupsKept(ConcGroupKeys)
                  /\ endpoints' = endpoints
           /\ \A id \in EnvelopeIds :
                CallNack(k, id[1], id[2]) =>
                  /\ tasks'[k].channel = endpoints[id[1]].channel
                  /\ GroupsKept(ConcGroupKeys)
                  /\ endpoints' = endpoints
           /\ (PublishRead(k) \/ PublishGroupLock(k)) =>
                /\ tasks'[k].channel = tasks[k].channel
                /\ GroupsKept(ConcGroupKeys)
                /\ endpoints' = endpoints
           /\ PublishDispatch(k) =>
                LET c == tasks[k].channel
                    t == CurrentTag(k)
                IN  /\ tasks'[k].channel = c
                    /\ GroupsKept(OtherGroups(c, t))
                    /\ groups'[c][t].consumers = groups[c][t].consumers
                    /\ \A e \in DOMAIN endpoints :
                         e \notin Delivered => endpoints'[e] = endpoints[e]
                    /\ Cardinality(Delivered) <= 1
                    /\ \A e \in Delivered :
                         /\ endpoints[e].channel = c
                         /\ e \in Range(groups[c][t].consumers)
                         /\ endpoints'[e].log = Append(endpoints[e].log, tasks[k].event)
           /\ \A o \in ConcOptions :
                CallRegister(k, o[1], o[2]) =>
                  /\ GroupsKept(ConcGroupKeys)
                  /\ endpoints' = endpoints
           /\ RegisterAdd(k) =>
                LET c == tasks[k].channel
                    t == tasks[k].tag
                IN  /\ GroupsKept(OtherGroups(c, t))
                    /\ groups'[c][t].idx = groups[c][t].idx
                    /\ \A e \in DOMAIN endpoints : endpoints'[e] = endpoints[e]
                    /\ endpoints'[Len(endpoints')].channel = c ]_vars
  /\ [](\A e \in DOMAIN endpoints :
          /\ \A slot \in SlotsOf(e) : slot[1][1] = endpoints[e].channel
          /\ \A j \in DOMAIN envelopes[e] :
               envelopes[e][j].channel = endpoints[e].channel
          /\ \A k \in Tasks :
               ( /\ tasks[k].op \in {"publish", "nack"}
                 /\ tasks[k].event \in Range(endpoints[e].log) )
               => tasks[k].channel = endpoints[e].channel)

\* C32 witness: one call published to each of two channels and a third
\* registered a subscriber; each channel's subscriber holds the event of its
\* own channel only.
C32_Witness ==
  \E k1, k2, k3 \in Tasks :
    /\ tasks[k1].op = "publish" /\ tasks[k1].pc = "done" /\ tasks[k1].channel = "orders"
    /\ tasks[k2].op = "publish" /\ tasks[k2].pc = "done" /\ tasks[k2].channel = "payments"
    /\ tasks[k3].op = "register" /\ tasks[k3].pc = "done"
    /\ \E e1, e2 \in DOMAIN endpoints :
         /\ endpoints[e1].channel = "orders"
         /\ endpoints[e1].log = << tasks[k1].event >>
         /\ endpoints[e2].channel = "payments"
         /\ endpoints[e2].log = << tasks[k2].event >>
    /\ endpoints[tasks[k3].rx].log = << >>

====
